---- MODULE Spec2Model ----
(***************************************************************************)
(* Verification model of the Rightmove listing scraper                     *)
(* (rightmove_scraper.py) and of its request handler (main.py).            *)
(*                                                                         *)
(* Text is modelled as a sequence of tokens.  A token is a TLA+ string     *)
(* that stands for a run of characters of the program's string; the token  *)
(* alphabets are chosen so that every pattern the code searches for        *)
(* (regular expressions, substring tests, the brace scanner's special      *)
(* characters) begins and ends on token borders, which makes the token     *)
(* level search equal to the character level search of the code.           *)
(***************************************************************************)
EXTENDS Integers, Sequences, FiniteSets, TLC

VARIABLES
    url,                  \* argument of scrape_rightmove_listing
    PLAYWRIGHT_AVAILABLE, \* module flag set by the import of playwright
    pc,                   \* position of the call
    browser,              \* "none" | "open" | "closed": the Chromium process
    launches,             \* number of successful or attempted browser launches
    gets,                 \* number of HTTP GETs issued by the httpx tier
    tierError,            \* exception that ended the Playwright tier, or "none"
    resolved_url,         \* URL of the page fetched last, after redirects
    html,                 \* page text held by the tier that is running
    page_model,           \* result of parse_page_model(html) in that tier
    image_elements,       \* result of page.query_selector_all in the DOM fallback
    waited,               \* how page.wait_for_selector ended: "none" | "ok" | "timeout" | "error"
    pending,              \* what the try block left for the finally clause
    outcome,              \* what scrape_rightmove_listing gave its caller
    response,             \* what get_property_from_rightmove gave the route
    input,                \* argument of the pure function under check
    output,               \* its result(s)
    step,                 \* position of the pure-function harness
    request,              \* HTTP request the API (main.py) is serving
    CLERK_SECRET_KEY,     \* TRUE when the environment variable is set
    IMAGE_PROVIDER,       \* "replicate" | "gemini"
    provider_key,         \* TRUE when the API key of the provider is set
    apc,                  \* position of the request in the API
    user,                 \* what verify_clerk_session returned, or "none"
    jwks_gets,            \* GETs of the key set issued by verify_clerk_session
    image_fetches,        \* calls of fetch_image_as_base64
    provider_calls,       \* requests that create a generation at the provider
    scrapes,              \* calls of get_property_from_rightmove
    polls,                \* status polls of the Replicate prediction
    prediction,           \* status the last poll reported
    api_response          \* HTTP status the API answered, 0 before

vars == <<url, PLAYWRIGHT_AVAILABLE, pc, browser, launches, gets, tierError,
          resolved_url, html, page_model, image_elements, waited, pending, outcome, response,
          input, output, step, request, CLERK_SECRET_KEY, IMAGE_PROVIDER, provider_key, apc,
          user, jwks_gets, image_fetches, provider_calls, scrapes, polls, prediction,
          api_response>>

scrapeVars == <<url, PLAYWRIGHT_AVAILABLE, pc, browser, launches, gets,
                tierError, resolved_url, html, page_model, image_elements, waited, pending,
                outcome, response>>

harnessVars == <<input, output, step>>

apiVars == <<request, CLERK_SECRET_KEY, IMAGE_PROVIDER, provider_key, apc, user, jwks_gets,
             image_fetches, provider_calls, scrapes, polls, prediction, api_response>>

-----------------------------------------------------------------------------
(* Bounds of the model *)

MaxImages == 2
MaxElems == 2
MaxSegs == 4
MaxStrLen == 2
MaxRawLen == 4
MaxIndex == 11
MaxTotal == 12
MaxDigits == 3

-----------------------------------------------------------------------------
(* Sequences as strings *)

SeqsUpTo(S, n) == UNION {[1..k -> S] : k \in 0..n}

StartsWith(s, p) == Len(s) >= Len(p) /\ SubSeq(s, 1, Len(p)) = p

Drop(s, n) == SubSeq(s, n + 1, Len(s))

Occurs(t, s) == \E i \in 1..Len(s) : s[i] = t

\* str.find of a one-token pattern: index of the first occurrence, 0 if none
Find(t, s) ==
    IF Occurs(t, s) THEN CHOOSE i \in 1..Len(s) : s[i] = t /\ \A j \in 1..(i - 1) : s[j] # t
    ELSE 0

-----------------------------------------------------------------------------
(* UrlValidator: urlparse(url).netloc, the host test, extract_property_id *)

Digits == {"1", "2"}

\* urllib.parse.urlparse(url).netloc: the text between "scheme://" and the
\* next "/", "?" or "#"; empty when the URL has no "//" after the scheme.
RECURSIVE UpToDelim(_)
UpToDelim(s) ==
    IF s = <<>> \/ Head(s) \in {"/", "?", "#"} THEN <<>>
    ELSE <<Head(s)>> \o UpToDelim(Tail(s))

Netloc(u) ==
    IF StartsWith(u, <<"https:", "/", "/">>) THEN UpToDelim(Drop(u, 3))
    ELSE IF StartsWith(u, <<"/", "/">>) THEN UpToDelim(Drop(u, 2))
    ELSE <<>>

\* 'rightmove.co.uk' in parsed.netloc: a substring test on the netloc
HostCheck(u) == Occurs("rightmove.co.uk", Netloc(u))

RECURSIVE DigitRun(_)
DigitRun(s) ==
    IF s # <<>> /\ Head(s) \in Digits THEN <<Head(s)>> \o DigitRun(Tail(s))
    ELSE <<>>

\* re.search(r'/propert(?:y|ies)[/-](\d+)', url): leftmost match, group 1
PathPatternAt(u, i) ==
    /\ i + 3 <= Len(u)
    /\ u[i] = "/"
    /\ u[i + 1] \in {"property", "properties"}
    /\ u[i + 2] \in {"/", "-"}
    /\ u[i + 3] \in Digits

\* re.search(r'propertyId=(\d+)', url)
QueryPatternAt(u, i) ==
    /\ i + 1 <= Len(u)
    /\ u[i] = "propertyId="
    /\ u[i + 1] \in Digits

extract_property_id(u) ==
    IF \E i \in 1..Len(u) : PathPatternAt(u, i)
    THEN LET i == CHOOSE k \in 1..Len(u) :
                    PathPatternAt(u, k) /\ \A j \in 1..(k - 1) : ~PathPatternAt(u, j)
         IN  DigitRun(Drop(u, i + 2))
    ELSE IF \E i \in 1..Len(u) : QueryPatternAt(u, i)
    THEN LET i == CHOOSE k \in 1..Len(u) :
                    QueryPatternAt(u, k) /\ \A j \in 1..(k - 1) : ~QueryPatternAt(u, j)
         IN  DigitRun(Drop(u, i))
    ELSE <<>>

\* The validation both tiers start with: "ok", or the ValueError raised.
ValidateUrl(u) ==
    IF ~HostCheck(u) THEN "ValueError"
    ELSE IF extract_property_id(u) = <<>> THEN "ValueError"
    ELSE "ok"

-----------------------------------------------------------------------------
(* ImageUrlCanonicalizer: upgrade_image_resolution *)

\* \d+x\d+ as one token
Dims == {"135x100", "656x437"}

\* _max_\d+x\d+ as one token
MaxSegments == {"_max_135x100", "_max_656x437"}

\* the pattern /crop/\d+x\d+/ at position i
CropAt(s, i) ==
    /\ i + 4 <= Len(s)
    /\ s[i] = "/" /\ s[i + 1] = "crop" /\ s[i + 2] = "/"
    /\ s[i + 3] \in Dims /\ s[i + 4] = "/"

\* the pattern /_max_\d+x\d+/ at position i
MaxAt(s, i) ==
    /\ i + 2 <= Len(s)
    /\ s[i] = "/" /\ s[i + 1] \in MaxSegments /\ s[i + 2] = "/"

\* re.sub(r'/crop/\d+x\d+/', '/', url): one pass, left to right, the
\* matches do not overlap (the scan resumes after the end of a match)
RECURSIVE SubCrop(_, _)
SubCrop(s, i) ==
    IF i > Len(s) THEN <<>>
    ELSE IF CropAt(s, i) THEN <<"/">> \o SubCrop(s, i + 5)
    ELSE <<s[i]>> \o SubCrop(s, i + 1)

\* re.sub(r'/_max_\d+x\d+/', '/', url)
RECURSIVE SubMax(_, _)
SubMax(s, i) ==
    IF i > Len(s) THEN <<>>
    ELSE IF MaxAt(s, i) THEN <<"/">> \o SubMax(s, i + 3)
    ELSE <<s[i]>> \o SubMax(s, i + 1)

upgrade_image_resolution(u) == SubMax(SubCrop(u, 1), 1)

-----------------------------------------------------------------------------
(* RoomClassifier: detect_room_type *)

\* What the code reads of a caption, per token: the lower-cased prefix and
\* suffix it tests, whether the text is shorter than 4 characters, and the
\* ROOM_KEYWORDS entries the lower-cased text contains.
TokLen(t) ==
    CASE t \in {"{", "}", "A", "a", "\"", "\\", "1", "2", " "} -> 1
      [] t = "WC" -> 2
      [] OTHER -> 4

TokPrefix(t) ==
    CASE t = "_DSC4821.jpg" -> "_dsc"
      [] t = "IMG_0042" -> "img_"
      [] t = "DSC_0001.png" -> "dsc_"
      [] t = "Photo of the garden" -> "photo"
      [] OTHER -> "none"

TokSuffix(t) ==
    CASE t = "_DSC4821.jpg" -> ".jpg"
      [] t = "kitchen.jpeg" -> ".jpeg"
      [] t = "DSC_0001.png" -> ".png"
      [] OTHER -> "none"

TokKeywords(t) ==
    CASE t = "Kitchen" -> {"kitchen"}
      [] t = "Lovely bright kitchen" -> {"kitchen"}
      [] t = "kitchen.jpeg" -> {"kitchen"}
      [] t = "Lounge" -> {"lounge"}
      [] t = "Bedroom 1" -> {"bedroom"}
      [] t = "Master bedroom with en-suite" -> {"bedroom", "master bed", "en-suite"}
      [] t = "Entrance hall" -> {"entrance", "hall", "entrance hall"}
      [] t = "Photo of the garden" -> {"garden"}
      [] t = "WC" -> {"wc"}
      [] OTHER -> {}

RECURSIVE CaptionLen(_)
CaptionLen(c) == IF c = <<>> THEN 0 ELSE TokLen(Head(c)) + CaptionLen(Tail(c))

CaptionKeywords(c) == UNION {TokKeywords(c[i]) : i \in 1..Len(c)}

ROOM_KEYWORDS == <<
    [room |-> "Kitchen", keywords |-> {"kitchen", "cooking", "culinary", "breakfast"}],
    [room |-> "Living Room", keywords |-> {"living", "lounge", "sitting", "reception", "drawing"}],
    [room |-> "Bedroom", keywords |-> {"bedroom", "bed room", "master bed", "guest bed", "sleep"}],
    [room |-> "Bathroom", keywords |-> {"bathroom", "bath room", "shower", "wc", "toilet", "en-suite", "ensuite"}],
    [room |-> "Garden", keywords |-> {"garden", "outdoor", "patio", "terrace", "yard", "lawn"}],
    [room |-> "Exterior", keywords |-> {"exterior", "front", "outside", "facade", "entrance"}],
    [room |-> "Dining Room", keywords |-> {"dining", "dinner", "eating"}],
    [room |-> "Study", keywords |-> {"study", "office", "home office", "work"}],
    [room |-> "Hallway", keywords |-> {"hall", "hallway", "entrance hall", "corridor"}],
    [room |-> "Utility", keywords |-> {"utility", "laundry", "boot room"}],
    [room |-> "Conservatory", keywords |-> {"conservatory", "sun room", "sunroom"}],
    [room |-> "Garage", keywords |-> {"garage", "parking", "car port"}],
    [room |-> "Basement", keywords |-> {"basement", "cellar"}],
    [room |-> "Attic", keywords |-> {"attic", "loft"}] >>

\* a test for the camera-filename prefixes only
is_filename_prefixes_only(c) ==
    c # <<>> /\ TokPrefix(c[1]) \in {"_dsc", "img_", "dsc_", "photo"}

is_filename(c) ==
    \/ (c # <<>> /\ TokPrefix(c[1]) \in {"_dsc", "img_", "dsc_", "photo"})
    \/ (c # <<>> /\ TokSuffix(c[Len(c)]) \in {".jpg", ".jpeg", ".png"})
    \/ CaptionLen(c) < 4
    \/ c = <<"font">>

KeywordMatches(c) ==
    {i \in 1..Len(ROOM_KEYWORDS) : ROOM_KEYWORDS[i].keywords \cap CaptionKeywords(c) # {}}

\* the buckets tested before the first photo
PositionalRoomBucketsFirst(index, total_images) ==
    IF total_images >= 10 THEN
        IF index <= 2 THEN [label |-> "Reception Room", photo |-> 0]
        ELSE IF index <= 4 THEN [label |-> "Kitchen / Dining", photo |-> 0]
        ELSE IF index <= 7 THEN [label |-> "Bedroom", photo |-> 0]
        ELSE IF index <= 9 THEN [label |-> "Bathroom", photo |-> 0]
        ELSE [label |-> "Garden / Other", photo |-> 0]
    ELSE IF index = 0 THEN [label |-> "Exterior", photo |-> 0]
    ELSE [label |-> "Photo", photo |-> index + 1]

\* the label of a "Photo N" placeholder is kept as the record [photo |-> N]
PositionalRoom(index, total_images) ==
    IF index = 0 THEN [label |-> "Exterior", photo |-> 0]
    ELSE IF total_images >= 10 THEN
        IF index <= 2 THEN [label |-> "Reception Room", photo |-> 0]
        ELSE IF index <= 4 THEN [label |-> "Kitchen / Dining", photo |-> 0]
        ELSE IF index <= 7 THEN [label |-> "Bedroom", photo |-> 0]
        ELSE IF index <= 9 THEN [label |-> "Bathroom", photo |-> 0]
        ELSE [label |-> "Garden / Other", photo |-> 0]
    ELSE [label |-> "Photo", photo |-> index + 1]

\* a classifier that returns the keyword it matched, not the room of the table
detect_room_type_keyword(c, index, total_images) ==
    IF ~is_filename(c) /\ KeywordMatches(c) # {}
    THEN LET i == CHOOSE k \in KeywordMatches(c) : \A j \in KeywordMatches(c) : k <= j
         IN  [label |-> CHOOSE kw \in ROOM_KEYWORDS[i].keywords \cap CaptionKeywords(c) : TRUE,
              photo |-> 0]
    ELSE PositionalRoom(index, total_images)

detect_room_type(c, index, total_images) ==
    IF ~is_filename(c) /\ KeywordMatches(c) # {}
    THEN LET i == CHOOSE k \in KeywordMatches(c) : \A j \in KeywordMatches(c) : k <= j
         IN  [label |-> ROOM_KEYWORDS[i].room, photo |-> 0]
    ELSE PositionalRoom(index, total_images)

-----------------------------------------------------------------------------
(* Python values: what json.loads returns and what the code builds *)

JNull == [t |-> "null"]
JBool(b) == [t |-> "bool", b |-> b]
JNum(d) == [t |-> "num", d |-> d]
JStr(s) == [t |-> "str", s |-> s]
JList(xs) == [t |-> "list", xs |-> xs]
JObj(kv) == [t |-> "obj", kv |-> kv]
KV(k, v) == [k |-> <<k>>, v |-> v]

EmptyStr == JStr(<<>>)
EmptyList == JList(<<>>)
EmptyDict == JObj(<<>>)
Zero == JNum(<<"0">>)

\* bool(v)
Truthy(v) ==
    CASE v.t = "null" -> FALSE
      [] v.t = "bool" -> v.b
      [] v.t = "num" -> v.d # <<"0">>
      [] v.t = "str" -> v.s # <<>>
      [] v.t = "list" -> v.xs # <<>>
      [] v.t = "obj" -> v.kv # <<>>

\* a or b
Or(a, b) == IF Truthy(a) THEN a ELSE b

isinstance_dict(v) == v.t = "obj"
isinstance_str(v) == v.t = "str"

HasKey(d, k) == \E i \in 1..Len(d.kv) : d.kv[i].k = <<k>>

\* d.get(k, default)
Get(d, k, default) ==
    IF HasKey(d, k) THEN d.kv[CHOOSE i \in 1..Len(d.kv) : d.kv[i].k = <<k>>].v
    ELSE default

\* d[k] = v as dict() does it for the pairs of a JSON object: a repeated
\* key keeps its first position and takes the last value
DictPut(kv, k, v) ==
    IF \E i \in 1..Len(kv) : kv[i].k = k
    THEN [i \in 1..Len(kv) |-> IF kv[i].k = k THEN [k |-> k, v |-> v] ELSE kv[i]]
    ELSE Append(kv, [k |-> k, v |-> v])

-----------------------------------------------------------------------------
(* json.loads on the token text *)

JsonDigits == {"0", "1", "2"}
Whitespace == {" "}

\* tokens whose first character is one of b f n r t: after a backslash they
\* form a valid escape followed by the rest of the token
EscapeLetterTokens == {"null", "true", "false", "bedrooms", "bathrooms", "floorplans",
                       "branchDisplayName", "text"}

\* a run of more than 4300 digits, as one token: int() of it raises
\* ValueError ("Exceeds the limit (4300 digits) for integer string
\* conversion"), which is no JSONDecodeError
HugeInt == "9...9 (5000 digits)"

\* the exception that ends the parse: JSONDecodeError for text that is no
\* JSON, ValueError for an integer literal over the digit limit.  (A nesting
\* deeper than the interpreter's recursion limit ends it with RecursionError
\* in the same way; the documents of the model are shallow.)
Fail == [ok |-> FALSE, v |-> JNull, i |-> 0, err |-> "JSONDecodeError"]
FailInt == [ok |-> FALSE, v |-> JNull, i |-> 0, err |-> "ValueError: int digits"]
Ok(v, i) == [ok |-> TRUE, v |-> v, i |-> i, err |-> "none"]

RECURSIVE SkipWs(_, _)
SkipWs(s, i) == IF i <= Len(s) /\ s[i] \in Whitespace THEN SkipWs(s, i + 1) ELSE i

\* the digits of a number starting at i: "0" alone, or a run not led by "0"
RECURSIVE NumberRun(_, _)
NumberRun(s, i) ==
    IF i <= Len(s) /\ s[i] \in JsonDigits THEN <<s[i]>> \o NumberRun(s, i + 1) ELSE <<>>

\* py_scanstring: i is the position after the opening quote
RECURSIVE ParseString(_, _, _)
ParseString(s, i, acc) ==
    IF i > Len(s) THEN Fail
    ELSE IF s[i] = "\"" THEN Ok(JStr(acc), i + 1)
    ELSE IF s[i] = "\\" THEN
        IF i + 1 > Len(s) THEN Fail
        ELSE IF s[i + 1] \in {"\"", "\\", "/"} THEN ParseString(s, i + 2, Append(acc, s[i + 1]))
        ELSE IF s[i + 1] \in EscapeLetterTokens THEN ParseString(s, i + 2, acc \o <<"^", s[i + 1]>>)
        ELSE Fail
    ELSE ParseString(s, i + 1, Append(acc, s[i]))

RECURSIVE ParseValue(_, _)
RECURSIVE ParseMembers(_, _, _)
RECURSIVE ParseElements(_, _, _)

\* JSONObject after the key position i: "key" : value, then "," or "}"
ParseMembers(s, i, kv) ==
    IF i > Len(s) \/ s[i] # "\"" THEN Fail
    ELSE LET key == ParseString(s, i + 1, <<>>) IN
         IF ~key.ok THEN key
         ELSE LET c == SkipWs(s, key.i) IN
              IF c > Len(s) \/ s[c] # ":" THEN Fail
              ELSE LET val == ParseValue(s, SkipWs(s, c + 1)) IN
                   IF ~val.ok THEN val
                   ELSE LET e == SkipWs(s, val.i)
                            kv2 == DictPut(kv, key.v.s, val.v)
                        IN  IF e > Len(s) THEN Fail
                            ELSE IF s[e] = "}" THEN Ok(JObj(kv2), e + 1)
                            ELSE IF s[e] = "," THEN ParseMembers(s, SkipWs(s, e + 1), kv2)
                            ELSE Fail

\* JSONArray after the position i of a value: value, then "," or "]"
ParseElements(s, i, xs) ==
    LET val == ParseValue(s, i) IN
    IF ~val.ok THEN val
    ELSE LET e == SkipWs(s, val.i) IN
         IF e > Len(s) THEN Fail
         ELSE IF s[e] = "]" THEN Ok(JList(Append(xs, val.v)), e + 1)
         ELSE IF s[e] = "," THEN ParseElements(s, SkipWs(s, e + 1), Append(xs, val.v))
         ELSE Fail

\* scan_once
ParseValue(s, i) ==
    IF i > Len(s) THEN Fail
    ELSE IF s[i] = "\"" THEN ParseString(s, i + 1, <<>>)
    ELSE IF s[i] = "{" THEN
        LET j == SkipWs(s, i + 1) IN
        IF j <= Len(s) /\ s[j] = "}" THEN Ok(EmptyDict, j + 1)
        ELSE ParseMembers(s, j, <<>>)
    ELSE IF s[i] = "[" THEN
        LET j == SkipWs(s, i + 1) IN
        IF j <= Len(s) /\ s[j] = "]" THEN Ok(EmptyList, j + 1)
        ELSE ParseElements(s, j, <<>>)
    ELSE IF s[i] = "null" THEN Ok(JNull, i + 1)
    ELSE IF s[i] = "true" THEN Ok(JBool(TRUE), i + 1)
    ELSE IF s[i] = "false" THEN Ok(JBool(FALSE), i + 1)
    ELSE IF s[i] = "0" THEN Ok(Zero, i + 1)
    ELSE IF s[i] \in JsonDigits THEN
        LET d == NumberRun(s, i) IN Ok(JNum(d), i + Len(d))
    ELSE IF s[i] = HugeInt THEN FailInt
    ELSE Fail

\* json.loads(s): the value, or the exception raised (JSONDecodeError also
\* for text after the value)
json_loads(s) ==
    LET r == ParseValue(s, SkipWs(s, 1)) IN
    IF ~r.ok THEN [ok |-> FALSE, v |-> JNull, err |-> r.err]
    ELSE IF SkipWs(s, r.i) = Len(s) + 1 THEN [ok |-> TRUE, v |-> r.v, err |-> "none"]
    ELSE [ok |-> FALSE, v |-> JNull, err |-> "JSONDecodeError"]

-----------------------------------------------------------------------------
(* EmbeddedJsonExtractor: parse_page_model *)

marker == "window.PAGE_MODEL = "

\* a scanner without the in_string test: braces count inside strings too
ScanStepCountingInStrings(st, ch, i) ==
    IF st.end # 0 THEN st
    ELSE IF st.escape_next THEN [st EXCEPT !.escape_next = FALSE]
    ELSE IF ch = "\\" THEN [st EXCEPT !.escape_next = TRUE]
    ELSE IF ch = "\"" THEN [st EXCEPT !.in_string = ~st.in_string]
    ELSE IF ch = "{" THEN [st EXCEPT !.brace_count = st.brace_count + 1]
    ELSE IF ch = "}" THEN
        IF st.brace_count - 1 = 0 THEN [st EXCEPT !.brace_count = 0, !.end = i]
        ELSE [st EXCEPT !.brace_count = st.brace_count - 1]
    ELSE st

\* a scanner that tests the depth after an opening brace too
ScanStepZeroAfterAnyBrace(st, ch, i) ==
    IF st.end # 0 THEN st
    ELSE IF st.escape_next THEN [st EXCEPT !.escape_next = FALSE]
    ELSE IF ch = "\\" THEN [st EXCEPT !.escape_next = TRUE]
    ELSE IF ch = "\"" THEN [st EXCEPT !.in_string = ~st.in_string]
    ELSE IF st.in_string THEN st
    ELSE IF ch = "{" THEN
        IF st.brace_count + 1 = 0 THEN [st EXCEPT !.brace_count = 0, !.end = i]
        ELSE [st EXCEPT !.brace_count = st.brace_count + 1]
    ELSE IF ch = "}" THEN
        IF st.brace_count - 1 = 0 THEN [st EXCEPT !.brace_count = 0, !.end = i]
        ELSE [st EXCEPT !.brace_count = st.brace_count - 1]
    ELSE st

\* one turn of the for loop of parse_page_model on the character ch at
\* position i; end is the position of the closing brace once the loop has
\* reached its break, 0 before (a state with end # 0 is after the break)
ScanStep(st, ch, i) ==
    IF st.end # 0 THEN st
    ELSE IF st.escape_next THEN [st EXCEPT !.escape_next = FALSE]
    ELSE IF ch = "\\" THEN [st EXCEPT !.escape_next = TRUE]
    ELSE IF ch = "\"" THEN [st EXCEPT !.in_string = ~st.in_string]
    ELSE IF st.in_string THEN st
    ELSE IF ch = "{" THEN [st EXCEPT !.brace_count = st.brace_count + 1]
    ELSE IF ch = "}" THEN
        IF st.brace_count - 1 = 0 THEN [st EXCEPT !.brace_count = 0, !.end = i]
        ELSE [st EXCEPT !.brace_count = st.brace_count - 1]
    ELSE st

\* the turns of the loop for the positions lo..hi, in order (the range is
\* split in halves to keep the evaluation shallow)
RECURSIVE ScanRange(_, _, _, _)
ScanRange(h, lo, hi, st) ==
    IF lo > hi THEN st
    ELSE IF lo = hi THEN ScanStep(st, h[lo], lo)
    ELSE LET mid == (lo + hi) \div 2
             left == ScanRange(h, lo, mid, st)
         IN  IF left.end # 0 THEN left ELSE ScanRange(h, mid + 1, hi, left)

\* the for loop from json_start to the end of the text
ScanBraces(h, json_start) ==
    ScanRange(h, json_start, Len(h),
              [brace_count |-> 0, in_string |-> FALSE, escape_next |-> FALSE, end |-> 0])

\* json_str = html[json_start:json_end] (positions here are 1-based; end is
\* the position of the closing brace, json_start - 1 when the loop did not break)
JsonStr(h) ==
    LET json_start == Find(marker, h) + 1
        sc == ScanBraces(h, json_start)
    IN  IF sc.end = 0 THEN <<>> ELSE SubSeq(h, json_start, sc.end)

\* the results of parse_page_model: the parsed value, None, an exception
\* that leaves the function
Parsed(v) == [kind |-> "dict", v |-> v, err |-> "none"]
ReturnNone == [kind |-> "none", v |-> JNull, err |-> "none"]
Raises(e) == [kind |-> "raise", v |-> JNull, err |-> e]

\* lines 159-214; "except json.JSONDecodeError" catches that exception only
parse_page_model(h) ==
    IF Find(marker, h) = 0 THEN ReturnNone
    ELSE LET json_start == Find(marker, h) + 1
             sc == ScanBraces(h, json_start)
         IN  IF sc.brace_count # 0 THEN ReturnNone
             ELSE LET r == json_loads(JsonStr(h)) IN
                  IF r.ok THEN Parsed(r.v)
                  ELSE IF r.err = "JSONDecodeError" THEN ReturnNone
                  ELSE Raises(r.err)


-----------------------------------------------------------------------------
(* Consumers of the parsed PAGE_MODEL *)

None == JNull

\* the values len(x) and a for loop accept; TypeError for the others
HasLen(v) == v.t \in {"list", "str", "obj"}

\* the items a for loop draws from x: the elements of a list, the
\* characters of a str (one token is one character in the str values the
\* model iterates), the keys of a dict
Items(v) ==
    CASE v.t = "list" -> v.xs
      [] v.t = "str" -> [i \in 1..Len(v.s) |-> JStr(<<v.s[i]>>)]
      [] v.t = "obj" -> [i \in 1..Len(v.kv) |-> JStr(v.kv[i].k)]

MediaPrefix == <<"https:", "/", "/", "media.rightmove.co.uk">>

\* "Ensure full URL" (lines 242-245)
EnsureFullUrl(u) ==
    IF StartsWith(u, <<"/", "/">>) THEN <<"https:">> \o u
    ELSE IF StartsWith(u, <<"/">>) THEN MediaPrefix \o u
    ELSE u

NoImage == [id |-> 0, url |-> <<>>, url_high_res |-> <<>>,
            room_type |-> [label |-> "", photo |-> 0], caption |-> <<>>,
            width |-> None, height |-> None]

\* one turn of the loop of extract_images_from_page_model: the entry is
\* skipped ("skip"), an exception is raised ("raise"), or an image is appended
ImageOfEntry(img, idx, total_images) ==
    IF img.t \notin {"obj", "str"} THEN [kind |-> "skip", image |-> NoImage]
    ELSE LET u == IF img.t = "obj"
                  THEN Or(Get(img, "url", None), Or(Get(img, "srcUrl", None), Get(img, "src", EmptyStr)))
                  ELSE img
             c == IF img.t = "obj"
                  THEN Or(Get(img, "caption", EmptyStr), Get(img, "alt", EmptyStr))
                  ELSE EmptyStr
             w == IF img.t = "obj" THEN Get(img, "width", None) ELSE None
             h == IF img.t = "obj" THEN Get(img, "height", None) ELSE None
         IN  IF ~Truthy(u) THEN [kind |-> "skip", image |-> NoImage]
             \* url.startswith on a value that is not a str: AttributeError
             ELSE IF u.t # "str" THEN [kind |-> "raise", image |-> NoImage]
             \* caption.lower() on a value that is not a str: AttributeError
             ELSE IF c.t # "str" THEN [kind |-> "raise", image |-> NoImage]
             ELSE [kind |-> "image",
                   image |-> [id |-> idx + 1,
                              url |-> EnsureFullUrl(u.s),
                              url_high_res |-> upgrade_image_resolution(EnsureFullUrl(u.s)),
                              room_type |-> detect_room_type(c.s, idx, total_images),
                              caption |-> c.s,
                              width |-> w,
                              height |-> h]]

RECURSIVE ImagesLoop(_, _, _)
ImagesLoop(items, idx, images) ==
    IF idx >= Len(items) THEN [raised |-> FALSE, images |-> images]
    ELSE LET r == ImageOfEntry(items[idx + 1], idx, Len(items)) IN
         IF r.kind = "raise" THEN [raised |-> TRUE, images |-> <<>>]
         ELSE IF r.kind = "skip" THEN ImagesLoop(items, idx + 1, images)
         ELSE ImagesLoop(items, idx + 1, Append(images, r.image))

extract_images_from_page_model(data) ==
    LET property_data == Get(data, "propertyData", data) IN
    \* property_data.get on a value that is not a dict: AttributeError
    IF ~isinstance_dict(property_data) THEN [raised |-> TRUE, images |-> <<>>]
    ELSE LET image_list == Get(property_data, "images", EmptyList) IN
         \* len(image_list) on None, a number or a bool: TypeError
         IF ~HasLen(image_list) THEN [raised |-> TRUE, images |-> <<>>]
         ELSE ImagesLoop(Items(image_list), 0, <<>>)

DefaultDetails ==
    [address |-> EmptyStr, price |-> EmptyStr, price_qualifier |-> EmptyStr,
     property_type |-> EmptyStr, bedrooms |-> Zero, bathrooms |-> Zero,
     agent_name |-> EmptyStr, agent_phone |-> EmptyStr, description |-> EmptyStr,
     features |-> EmptyList, floorplan_urls |-> <<>>]

\* [fp.get('url', '') for fp in floorplans if isinstance(fp, dict) and fp.get('url')]
RECURSIVE FloorplanUrls(_)
FloorplanUrls(items) ==
    IF items = <<>> THEN <<>>
    ELSE LET fp == Head(items) IN
         IF isinstance_dict(fp) /\ Truthy(Get(fp, "url", None))
         THEN <<Get(fp, "url", EmptyStr)>> \o FloorplanUrls(Tail(items))
         ELSE FloorplanUrls(Tail(items))

extract_property_details(data) ==
    IF ~Truthy(data) THEN [raised |-> FALSE, details |-> DefaultDetails]
    ELSE LET prop == Get(data, "propertyData", data) IN
    \* prop.get on a value that is not a dict: AttributeError
    IF ~isinstance_dict(prop) THEN [raised |-> TRUE, details |-> DefaultDetails]
    ELSE LET addr == Get(prop, "address", EmptyDict)
             prices == Get(prop, "prices", EmptyDict)
             agent == Or(Get(prop, "customer", EmptyDict), Get(prop, "agent", EmptyDict))
             text == Get(prop, "text", None)
             floorplans == Get(prop, "floorplans", EmptyList)
         IN  \* for fp in floorplans on None, a number or a bool: TypeError
             IF ~HasLen(floorplans) THEN [raised |-> TRUE, details |-> DefaultDetails]
             ELSE [raised |-> FALSE,
                   details |->
                     [address |-> IF isinstance_dict(addr) THEN Get(addr, "displayAddress", EmptyStr)
                                  ELSE IF isinstance_str(addr) THEN addr
                                  ELSE EmptyStr,
                      price |-> IF isinstance_dict(prices) THEN Get(prices, "primaryPrice", EmptyStr)
                                ELSE EmptyStr,
                      price_qualifier |-> IF isinstance_dict(prices) THEN Get(prices, "priceQualifier", EmptyStr)
                                          ELSE EmptyStr,
                      property_type |-> Or(Get(prop, "propertySubType", EmptyStr), Get(prop, "propertyType", EmptyStr)),
                      bedrooms |-> Or(Get(prop, "bedrooms", Zero), Zero),
                      bathrooms |-> Or(Get(prop, "bathrooms", Zero), Zero),
                      agent_name |-> IF isinstance_dict(agent)
                                     THEN Or(Get(agent, "branchDisplayName", EmptyStr), Get(agent, "name", EmptyStr))
                                     ELSE EmptyStr,
                      agent_phone |-> IF isinstance_dict(agent)
                                      THEN Or(Get(agent, "contactTelephone", EmptyStr), Get(agent, "phone", EmptyStr))
                                      ELSE EmptyStr,
                      description |-> IF isinstance_dict(text) THEN Get(text, "description", EmptyStr)
                                      ELSE EmptyStr,
                      features |-> Or(Get(prop, "keyFeatures", EmptyList), EmptyList),
                      floorplan_urls |-> FloorplanUrls(Items(floorplans))]]

\* PropertyListing(url=url, property_id=property_id, ..., images=images, ...)
PropertyListing(u, property_id, details, images) ==
    [url |-> u, property_id |-> property_id, address |-> details.address,
     price |-> details.price, price_qualifier |-> details.price_qualifier,
     property_type |-> details.property_type, bedrooms |-> details.bedrooms,
     bathrooms |-> details.bathrooms, images |-> images,
     floorplan_urls |-> details.floorplan_urls, agent_name |-> details.agent_name,
     agent_phone |-> details.agent_phone, description |-> details.description,
     features |-> details.features]


-----------------------------------------------------------------------------
(* DOM fallback of the Playwright tier (lines 552-605) *)

\* src.split('?')[0]
CleanUrl(src) == IF Occurs("?", src) THEN SubSeq(src, 1, Find("?", src) - 1) ELSE src

\* tokens whose lower-cased text contains one of the skip patterns
\* 'branch_logo', '_generate', 'logo', 'icon', 'placeholder'; the pattern
\* 'BRANCH_PROFILE' is compared with the lower-cased URL and matches no text
SkipTokens == {"branch_logo.png", "logo_IMG_1.jpeg", "Icon_IMG_2.jpeg", "placeholder.png",
               "tile_generate.png"}

\* any(pattern in clean_url.lower() for pattern in skip_patterns)
HasSkipPattern(u) ==
    \/ \E i \in 1..Len(u) : u[i] \in SkipTokens
    \/ \E i \in 1..(Len(u) - 2) : u[i] = "/" /\ u[i + 1] \in {"map", "assets"} /\ u[i + 2] = "/"

\* '_max_135x' in clean_url or '_max_100x' in clean_url
ThumbTokens == {"_max_135x100", "1_IMG_00_0000_max_135x100.jpeg"}
IsThumbnail(u) == \E i \in 1..Len(u) : u[i] \in ThumbTokens

\* '_IMG_' in clean_url or '_FLP_' in clean_url
PhotoTokens == {"1_IMG_00_0000.jpeg", "1_IMG_01_0000.jpeg", "1_FLP_00_0000.jpeg",
                "1_IMG_00_0000_max_135x100.jpeg", "logo_IMG_1.jpeg", "Icon_IMG_2.jpeg",
                "BRANCH_PROFILE_IMG_3.jpeg", "branch_profile_IMG_4.jpeg"}
IsPropertyPhoto(u) == \E i \in 1..Len(u) : u[i] \in PhotoTokens

\* the for loop over image_elements; seen is seen_urls
RECURSIVE DomLoop(_, _, _, _)
DomLoop(elems, idx, seen, images) ==
    IF idx >= Len(elems) THEN images
    ELSE LET src == elems[idx + 1].src
             clean_url == CleanUrl(src)
         IN  IF src = <<>> THEN DomLoop(elems, idx + 1, seen, images)
             ELSE IF HasSkipPattern(clean_url) THEN DomLoop(elems, idx + 1, seen, images)
             ELSE IF clean_url \in seen THEN DomLoop(elems, idx + 1, seen, images)
             ELSE IF IsThumbnail(clean_url) THEN DomLoop(elems, idx + 1, seen \cup {clean_url}, images)
             ELSE IF ~IsPropertyPhoto(clean_url) THEN DomLoop(elems, idx + 1, seen \cup {clean_url}, images)
             ELSE DomLoop(elems, idx + 1, seen \cup {clean_url},
                          Append(images,
                                 [id |-> Len(images) + 1,
                                  url |-> clean_url,
                                  url_high_res |-> upgrade_image_resolution(clean_url),
                                  room_type |-> detect_room_type(elems[idx + 1].alt, idx, Len(elems)),
                                  caption |-> elems[idx + 1].alt,
                                  width |-> None,
                                  height |-> None]))


-----------------------------------------------------------------------------
(* Inputs: URLs, image URLs, PAGE_MODEL documents, pages, DOM elements *)

Scheme == <<"https:", "/", "/">>
Www == <<"www", ".", "rightmove.co.uk">>

MainUrls == {
    Scheme \o Www \o <<"/", "properties", "/", "1", "2">>,
    Scheme \o Www \o <<"/", "find", "?", "propertyId=", "2">>,
    Scheme \o Www \o <<"/", "property", "-", "for", "-", "sale", "-", "1">>,
    Scheme \o Www \o <<"/", "property", "-", "2", "-", "bed", "-", "flat", "-", "1", "2">>,
    Scheme \o Www,
    Www \o <<"/", "properties", "/", "1", "2">>,
    Scheme \o <<"evil", ".", "com", "/", "properties", "/", "1", "2">>,
    Scheme \o <<"rightmove.co.uk", ".", "evil", ".", "com", "/", "properties", "/", "1", "2">>,
    Scheme \o <<"evil", "rightmove.co.uk", "/", "property", "-", "1">> }

\* json.dumps with separators (",", ":"): the text of a value
RECURSIVE DumpStr(_)
DumpStr(s) ==
    IF s = <<>> THEN <<>>
    ELSE (IF Head(s) \in {"\"", "\\"} THEN <<"\\", Head(s)>> ELSE <<Head(s)>>) \o DumpStr(Tail(s))

RECURSIVE Dump(_)
RECURSIVE DumpList(_)
RECURSIVE DumpMembers(_)
DumpList(xs) ==
    IF xs = <<>> THEN <<>>
    ELSE Dump(Head(xs)) \o (IF Len(xs) > 1 THEN <<",">> ELSE <<>>) \o DumpList(Tail(xs))
DumpMembers(kv) ==
    IF kv = <<>> THEN <<>>
    ELSE <<"\"">> \o DumpStr(Head(kv).k) \o <<"\"", ":">> \o Dump(Head(kv).v)
         \o (IF Len(kv) > 1 THEN <<",">> ELSE <<>>) \o DumpMembers(Tail(kv))
Dump(v) ==
    CASE v.t = "null" -> <<"null">>
      [] v.t = "bool" -> IF v.b THEN <<"true">> ELSE <<"false">>
      [] v.t = "num" -> v.d
      [] v.t = "str" -> <<"\"">> \o DumpStr(v.s) \o <<"\"">>
      [] v.t = "list" -> <<"[">> \o DumpList(v.xs) \o <<"]">>
      [] v.t = "obj" -> <<"{">> \o DumpMembers(v.kv) \o <<"}">>

S(t) == JStr(<<t>>)

ImgMax == JStr(MediaPrefix \o <<"/", "a", "/", "_max_135x100", "/", "1.jpg">>)
ImgPlain == JStr(MediaPrefix \o <<"/", "a", "/", "2.jpg">>)
ImgTwoMax == JStr(MediaPrefix \o <<"/", "a", "/", "_max_135x100", "/", "_max_656x437", "/", "3.jpg">>)
ImgRelative == JStr(<<"/", "a", "/", "crop", "/", "135x100", "/", "4.jpg">>)

ImageEntries == {
    JObj(<<KV("url", ImgMax), KV("caption", S("Kitchen"))>>),
    JObj(<<KV("caption", S("Lounge"))>>),
    ImgPlain,
    JNum(<<"1">>),
    JObj(<<KV("url", ImgTwoMax), KV("caption", EmptyStr)>>),
    JObj(<<KV("url", JNum(<<"1">>))>>),
    JObj(<<KV("url", ImgPlain), KV("caption", JStr(<<"Room ", "{", "A", "}">>))>>),
    JObj(<<KV("srcUrl", ImgRelative), KV("alt", S("_DSC4821.jpg")), KV("width", JNum(<<"1">>))>>) }

Address == JObj(<<KV("displayAddress", S("1 Example Rd"))>>)
Prices == JObj(<<KV("primaryPrice", S("£500,000"))>>)
Kitchen == JObj(<<KV("url", ImgMax), KV("caption", S("Kitchen"))>>)

PageModel(prop) == JObj(<<KV("propertyData", prop)>>)

ListingData(images) ==
    PageModel(JObj(<<KV("address", Address), KV("prices", Prices), KV("images", images)>>))

\* the documents whose images vary
ImageDocs == {ListingData(JList(xs)) : xs \in SeqsUpTo(ImageEntries, MaxImages)}

\* the documents whose other fields vary: absent, null or of another type
ShapeDocs == {
    EmptyDict,
    PageModel(JNull),
    PageModel(EmptyList),
    PageModel(S("a")),
    PageModel(EmptyDict),
    JObj(<<KV("address", S("1 Example Rd")), KV("images", JList(<<Kitchen>>))>>),
    PageModel(JObj(<<KV("address", JNull), KV("prices", JNull), KV("images", JList(<<Kitchen>>))>>)),
    PageModel(JObj(<<KV("address", JObj(<<KV("displayAddress", JNull)>>)), KV("prices", S("a"))>>)),
    PageModel(JObj(<<KV("address", Address), KV("images", JNull)>>)),
    PageModel(JObj(<<KV("address", Address), KV("images", JNum(<<"1">>))>>)),
    PageModel(JObj(<<KV("address", Address), KV("images", S("a"))>>)),
    PageModel(JObj(<<KV("address", Address), KV("images", JObj(<<KV("a", Kitchen)>>))>>)),
    PageModel(JObj(<<KV("address", Address), KV("floorplans", JNull)>>)),
    PageModel(JObj(<<KV("address", Address),
                     KV("floorplans", JList(<<JObj(<<KV("url", ImgPlain)>>), JObj(<<KV("url", EmptyStr)>>), JNum(<<"1">>)>>))>>)),
    PageModel(JObj(<<KV("address", Address), KV("prices", Prices),
                     KV("propertySubType", JNull), KV("propertyType", S("Flat")),
                     KV("bedrooms", JNum(<<"2">>)), KV("bathrooms", JNull),
                     KV("customer", JObj(<<KV("branchDisplayName", S("Agent"))>>)),
                     KV("text", JObj(<<KV("description", S("Flat"))>>)),
                     KV("keyFeatures", JList(<<S("Garden")>>)),
                     KV("images", JList(<<Kitchen>>))>>)) }

Page(payload) == <<"<html>", "<script>", marker>> \o payload \o <<";", "</script>", "</html>">>

SampleDump == Dump(ListingData(JList(<<Kitchen>>)))

\* pages without a usable PAGE_MODEL: no marker, a payload cut short (in a
\* string, in the object), text that is no JSON object, an integer literal
\* over the digit limit
BrokenPages == {
    <<"<html>", "</html>">>,
    Page(SubSeq(SampleDump, 1, 2)),
    Page(SubSeq(SampleDump, 1, Len(SampleDump) - 1)),
    Page(<<"null">>),
    Page(<<"[", "{", "}", "]">>),
    Page(<<"{", "a", "}">>),
    Page(<<"{", "\"", "bedrooms", "\"", ":", HugeInt, "}">>) }

\* img elements the selector img[src*="media.rightmove.co.uk"] returns
Photo(file) == MediaPrefix \o <<"/", "dir", "/", file>>

DomElements == {
    [src |-> Photo("1_IMG_00_0000.jpeg"), alt |-> <<"Kitchen">>],
    [src |-> Photo("1_IMG_00_0000.jpeg") \o <<"?", "w=1">>, alt |-> <<>>],
    [src |-> Photo("1_IMG_01_0000.jpeg"), alt |-> <<>>],
    [src |-> MediaPrefix \o <<"/", "dir", "/", "_max_656x437", "/", "1_IMG_00_0000.jpeg">>, alt |-> <<"_DSC4821.jpg">>],
    [src |-> Photo("1_IMG_00_0000_max_135x100.jpeg"), alt |-> <<>>],
    [src |-> Photo("branch_logo.png"), alt |-> <<"Agent">>],
    [src |-> Photo("1_FLP_00_0000.jpeg"), alt |-> <<"Floorplan">>] }

\* two property photos with a logo between them
ScenarioElems == <<
    [src |-> Photo("1_IMG_00_0000.jpeg"), alt |-> <<"Kitchen">>],
    [src |-> Photo("branch_logo.png"), alt |-> <<"Agent">>],
    [src |-> Photo("1_IMG_01_0000.jpeg"), alt |-> <<>>] >>

\* the picture of the agent's branch profile, in either letter case, and a
\* property photo
ProfileElems == {
    <<[src |-> Photo("BRANCH_PROFILE_IMG_3.jpeg"), alt |-> <<"Agent">>],
      [src |-> Photo("1_IMG_00_0000.jpeg"), alt |-> <<"Kitchen">>]>>,
    <<[src |-> Photo("1_IMG_00_0000.jpeg"), alt |-> <<"Kitchen">>],
      [src |-> Photo("branch_profile_IMG_4.jpeg"), alt |-> <<>>]>> }

DomLists == SeqsUpTo(DomElements, MaxElems) \cup {ScenarioElems} \cup ProfileElems

\* the text of an img element, and a page without the marker that holds some
RECURSIVE ImgTags(_)
ImgTags(elems) ==
    IF elems = <<>> THEN <<>>
    ELSE <<"<img src=">> \o Head(elems).src \o <<">">> \o ImgTags(Tail(elems))

ImgPage(elems) == <<"<html>">> \o ImgTags(elems) \o <<"</html>">>

ImgPages == {ImgPage(ScenarioElems), ImgPage(SubSeq(ScenarioElems, 1, 1))}

Htmls == {Page(Dump(v)) : v \in ImageDocs \cup ShapeDocs} \cup BrokenPages \cup ImgPages


-----------------------------------------------------------------------------
(* scrape_rightmove_listing: the two tiers, one action per awaited step *)

NoListing == PropertyListing(<<>>, <<>>, DefaultDetails, <<>>)

NoPending == [kind |-> "none", listing |-> NoListing, error |-> "none"]
Return(l) == [kind |-> "return", listing |-> l, error |-> "none"]
Raise(e) == [kind |-> "raise", listing |-> NoListing, error |-> e]

NoOutcome == [kind |-> "none", listing |-> NoListing, error |-> "none", tier |-> "none"]
Listing(l, tier) == [kind |-> "listing", listing |-> l, error |-> "none", tier |-> tier]
Error(e, tier) == [kind |-> "error", listing |-> NoListing, error |-> e, tier |-> tier]

\* response before get_property_from_rightmove has ended
NoResponse == [status |-> 0, body |-> <<>>, detail |-> "none"]

\* where a fetch of u ends: at u, or at the target of a redirect (page.goto
\* and the client of line 397, follow_redirects=True, follow redirects)
RedirectTarget == Scheme \o Www \o <<"/", "properties", "/", "2">>
Resolutions(u) == {u, RedirectTarget}

\* page_model before parse_page_model has been called
NoPageModel == [kind |-> "unset", v |-> JNull, err |-> "none"]

\* What a tier computes from the page text h without reading anything else:
\* page_model = parse_page_model(html); if page_model: (usable) the images
\* and the details of lines 547 and 610, 409 and 410
Extraction(h) ==
    LET pm == parse_page_model(h) IN
    [html |-> h,
     page_model |-> pm,
     usable |-> pm.kind = "dict" /\ Truthy(pm.v),
     imgs |-> IF pm.kind = "dict" /\ Truthy(pm.v)
              THEN extract_images_from_page_model(pm.v)
              ELSE [raised |-> FALSE, images |-> <<>>],
     det |-> IF pm.kind = "dict" /\ Truthy(pm.v)
             THEN extract_property_details(pm.v)
             ELSE extract_property_details(EmptyDict)]

\* the pages a fetch can return, each with what the tier computes from it
Extractions == {Extraction(h) : h \in Htmls}

\* lines 545-548 and 610-627, lines 407-410 and 416-431: with a PAGE_MODEL,
\* the listing built from its images and details, or the exception raised
FromPageModel(u, x) ==
    IF x.page_model.kind = "raise" THEN Raise(x.page_model.err)
    ELSE IF x.imgs.raised THEN Raise("AttributeError")
    ELSE IF x.det.raised THEN Raise("AttributeError")
    ELSE Return(PropertyListing(u, extract_property_id(u), x.det.details, x.imgs.images))

\* A call of scrape_rightmove_listing.  PLAYWRIGHT_AVAILABLE is FALSE when the
\* import of playwright failed (lines 27-32).  On interpreters that evaluate
\* annotations at definition time the name Page of line 263 is then unbound
\* and the module does not load at all; the FALSE case is the module loaded
\* by an interpreter with deferred annotations.
ScrapeInit ==
    /\ url \in MainUrls
    /\ PLAYWRIGHT_AVAILABLE \in BOOLEAN
    /\ pc = "start"
    /\ browser = "none"
    /\ launches = 0
    /\ gets = 0
    /\ tierError = "none"
    /\ resolved_url = <<>>
    /\ html = <<>>
    /\ page_model = NoPageModel
    /\ image_elements = <<>>
    /\ waited = "none"
    /\ pending = NoPending
    /\ outcome = NoOutcome
    /\ response = NoResponse

ScrapeIdle ==
    /\ url = <<>>
    /\ PLAYWRIGHT_AVAILABLE = FALSE
    /\ pc = "idle"
    /\ browser = "none"
    /\ launches = 0
    /\ gets = 0
    /\ tierError = "none"
    /\ resolved_url = <<>>
    /\ html = <<>>
    /\ page_model = NoPageModel
    /\ image_elements = <<>>
    /\ waited = "none"
    /\ pending = NoPending
    /\ outcome = NoOutcome
    /\ response = NoResponse

HarnessIdle == input = <<>> /\ output = <<>> /\ step = "idle"

\* no request is being served
NoRequest == [endpoint |-> "none"]

\* no poll has reported a status
NoPrediction == [status |-> "none", output |-> FALSE]

ApiIdle ==
    /\ request = NoRequest
    /\ CLERK_SECRET_KEY = FALSE
    /\ IMAGE_PROVIDER = "replicate"
    /\ provider_key = FALSE
    /\ apc = "idle"
    /\ user = "none"
    /\ jwks_gets = 0
    /\ image_fetches = 0
    /\ provider_calls = 0
    /\ scrapes = 0
    /\ polls = 0
    /\ prediction = NoPrediction
    /\ api_response = 0

\* lines 452-459 and 468-474: the dispatch on PLAYWRIGHT_AVAILABLE and the
\* validation at the head of _scrape_with_playwright; its ValueError is
\* caught by the except clause of line 460
Start ==
    /\ pc = "start"
    /\ IF ~PLAYWRIGHT_AVAILABLE THEN pc' = "httpx" /\ UNCHANGED tierError
       ELSE IF ValidateUrl(url) # "ok" THEN pc' = "httpx" /\ tierError' = "ValueError"
       ELSE pc' = "launch" /\ UNCHANGED tierError
    /\ UNCHANGED <<url, resolved_url, PLAYWRIGHT_AVAILABLE, browser, launches, gets, html, page_model,
                   image_elements, waited, pending, outcome>>
    /\ UNCHANGED <<response, harnessVars, apiVars>>

\* a launch that is tried a second time when the first one raised
LaunchWithRetry ==
    /\ pc = "launch"
    /\ launches' = launches + 1
    /\ \/ browser' = "open" /\ pc' = "session" /\ UNCHANGED tierError
       \/ /\ browser' = browser
          /\ IF launches = 0 THEN pc' = "launch" /\ UNCHANGED tierError
             ELSE pc' = "httpx" /\ tierError' = "LaunchError"
    /\ UNCHANGED <<url, resolved_url, PLAYWRIGHT_AVAILABLE, gets, html, page_model, image_elements, waited,
                   pending, outcome>>
    /\ UNCHANGED <<response, harnessVars, apiVars>>

\* lines 476-493: p.chromium.launch succeeds or raises
Launch ==
    /\ pc = "launch"
    /\ launches' = launches + 1
    /\ \/ browser' = "open" /\ pc' = "session" /\ UNCHANGED tierError
       \/ browser' = browser /\ pc' = "httpx" /\ tierError' = "LaunchError"
    /\ UNCHANGED <<url, resolved_url, PLAYWRIGHT_AVAILABLE, gets, html, page_model, image_elements, waited,
                   pending, outcome>>
    /\ UNCHANGED <<response, harnessVars, apiVars>>

\* lines 495-524: context, page, headers, then page.goto: it returns, times
\* out, or one of the calls raises another error
Goto ==
    /\ pc = "session"
    /\ \/ pc' = "wait" /\ resolved_url' \in Resolutions(url) /\ UNCHANGED pending
       \/ pc' = "finally" /\ pending' = Raise("NavigationTimeout") /\ UNCHANGED resolved_url
       \/ pc' = "finally" /\ pending' = Raise("PlaywrightError") /\ UNCHANGED resolved_url
    /\ UNCHANGED <<url, PLAYWRIGHT_AVAILABLE, browser, launches, gets, tierError,
                   html, page_model, image_elements, waited, outcome>>
    /\ UNCHANGED <<response, harnessVars, apiVars>>

\* lines 528-536: wait_for_selector returns or times out (PlaywrightTimeout is
\* caught), then sleep; any other exception leaves the try block
WaitForSelector ==
    /\ pc = "wait"
    /\ \/ waited' \in {"ok", "timeout"} /\ pc' = "content" /\ UNCHANGED pending
       \/ waited' = "error" /\ pc' = "finally" /\ pending' = Raise("PlaywrightError")
    /\ UNCHANGED <<url, resolved_url, PLAYWRIGHT_AVAILABLE, browser, launches, gets, tierError,
                   html, page_model, image_elements, outcome>>
    /\ UNCHANGED <<response, harnessVars, apiVars>>

\* lines 538-548 and 609-627: page.content(), parse_page_model, and with a
\* PAGE_MODEL the images, the details and the listing
Content ==
    /\ pc = "content"
    /\ \/ /\ pc' = "finally" /\ pending' = Raise("PlaywrightError")
          /\ UNCHANGED <<html, page_model>>
       \/ \E x \in Extractions :
            /\ html' = x.html
            /\ page_model' = x.page_model
            /\ IF x.page_model.kind = "raise" \/ x.usable
               THEN pc' = "finally" /\ pending' = FromPageModel(url, x)
               ELSE pc' = "dom" /\ UNCHANGED pending
    /\ UNCHANGED <<url, resolved_url, PLAYWRIGHT_AVAILABLE, browser, launches, gets, tierError,
                   image_elements, waited, outcome>>
    /\ UNCHANGED <<response, harnessVars, apiVars>>

\* lines 549-627: without a PAGE_MODEL, query_selector_all, the loop over the
\* elements, the details of an empty dict, the listing
QueryDom ==
    /\ pc = "dom"
    /\ \/ pending' = Raise("PlaywrightError") /\ UNCHANGED image_elements
       \/ \E elems \in DomLists :
            /\ image_elements' = elems
            /\ pending' = Return(PropertyListing(url, extract_property_id(url),
                                                 extract_property_details(EmptyDict).details,
                                                 DomLoop(elems, 0, {}, <<>>)))
    /\ pc' = "finally"
    /\ UNCHANGED <<url, resolved_url, PLAYWRIGHT_AVAILABLE, browser, launches, gets, tierError,
                   html, page_model, waited, outcome>>
    /\ UNCHANGED <<response, harnessVars, apiVars>>

\* a finally clause that closes the browser only when the try block returned
FinallyOnReturnOnly ==
    /\ pc = "finally"
    /\ browser' = IF pending.kind = "return" THEN "closed" ELSE browser
    /\ IF pending.kind = "return"
       THEN pc' = "done" /\ outcome' = Listing(pending.listing, "playwright") /\ UNCHANGED tierError
       ELSE pc' = "httpx" /\ tierError' = pending.error /\ UNCHANGED outcome
    /\ pending' = NoPending
    /\ UNCHANGED <<url, resolved_url, PLAYWRIGHT_AVAILABLE, launches, gets, html, page_model, image_elements, waited>>
    /\ UNCHANGED <<response, harnessVars, apiVars>>

\* lines 629-630 and 459-462: browser.close() in the finally clause, then the
\* listing is returned, or the exception reaches the except clause of
\* scrape_rightmove_listing, which calls the httpx tier
Finally ==
    /\ pc = "finally"
    /\ browser' = "closed"
    /\ IF pending.kind = "return"
       THEN pc' = "done" /\ outcome' = Listing(pending.listing, "playwright") /\ UNCHANGED tierError
       ELSE pc' = "httpx" /\ tierError' = pending.error /\ UNCHANGED outcome
    /\ pending' = NoPending
    /\ UNCHANGED <<url, resolved_url, PLAYWRIGHT_AVAILABLE, launches, gets, html, page_model, image_elements, waited>>
    /\ UNCHANGED <<response, harnessVars, apiVars>>

\* lines 381-387: the validation at the head of scrape_with_httpx_fallback;
\* its ValueError leaves scrape_rightmove_listing
HttpxValidate ==
    /\ pc = "httpx"
    /\ IF ValidateUrl(url) # "ok"
       THEN pc' = "done" /\ outcome' = Error("ValueError", "httpx")
       ELSE pc' = "get" /\ UNCHANGED outcome
    /\ UNCHANGED <<url, resolved_url, PLAYWRIGHT_AVAILABLE, browser, launches, gets, tierError,
                   html, page_model, image_elements, waited, pending>>
    /\ UNCHANGED <<response, harnessVars, apiVars>>

\* lines 389-431: client.get and raise_for_status raise, or the page is
\* parsed: with a PAGE_MODEL the images and details, without one no images
\* and the default details
HttpGet ==
    /\ pc = "get"
    /\ gets' = gets + 1
    /\ \/ /\ html' = <<>> /\ page_model' = NoPageModel
          /\ outcome' = Error("HTTPError", "httpx")
          /\ UNCHANGED resolved_url
       \/ \E x \in Extractions :
            /\ html' = x.html
            /\ resolved_url' \in Resolutions(url)
            /\ page_model' = x.page_model
            /\ outcome' =
                 IF x.page_model.kind = "raise" \/ x.usable
                 THEN LET r == FromPageModel(url, x) IN
                      IF r.kind = "return" THEN Listing(r.listing, "httpx")
                      ELSE Error(r.error, "httpx")
                 ELSE Listing(PropertyListing(url, extract_property_id(url), x.det.details, <<>>),
                              "httpx")
    /\ pc' = "done"
    /\ UNCHANGED <<url, PLAYWRIGHT_AVAILABLE, browser, launches, tierError,
                   image_elements, waited, pending>>
    /\ UNCHANGED <<response, harnessVars, apiVars>>

\* main.py, the response models: PropertyImage(id, url, url_high_res, room,
\* caption) and PropertyResponse; a value that is not of the declared type
\* (str, int, list[str]) makes the constructor raise ValidationError, which
\* is a subclass of ValueError
PropertyImage(img) ==
    [id |-> img.id, url |-> img.url, url_high_res |-> img.url_high_res,
     room |-> img.room_type, caption |-> img.caption]

ValidResponseFields(listing) ==
    /\ listing.address.t = "str"
    /\ listing.price.t = "str"
    /\ listing.property_type.t = "str"
    /\ listing.bedrooms.t = "num"
    /\ listing.bathrooms.t = "num"
    /\ listing.agent_name.t = "str"
    /\ \A i \in 1..Len(listing.floorplan_urls) : listing.floorplan_urls[i].t = "str"

PropertyResponse(listing) ==
    [url |-> listing.url, property_id |-> listing.property_id,
     address |-> listing.address, price |-> listing.price,
     property_type |-> listing.property_type, bedrooms |-> listing.bedrooms,
     bathrooms |-> listing.bathrooms,
     images |-> [i \in 1..Len(listing.images) |-> PropertyImage(listing.images[i])],
     floorplan_urls |-> listing.floorplan_urls, agent_name |-> listing.agent_name]

HTTPException(status_code, detail) == [status |-> status_code, body |-> <<>>, detail |-> detail]

\* the exceptions of the model that are instances of ValueError
ValueErrors == {"ValueError", "ValueError: int digits", "ValidationError"}

\* main.py lines 246-285, get_property_from_rightmove: the listing becomes a
\* PropertyResponse; except ValueError: 400; except Exception: 500
Respond ==
    /\ pc = "done"
    /\ response = NoResponse
    /\ LET e == IF outcome.kind = "error" THEN outcome.error
                ELSE IF ~ValidResponseFields(outcome.listing) THEN "ValidationError"
                ELSE "none"
       IN  response' = IF e = "none" THEN [status |-> 200, body |-> PropertyResponse(outcome.listing),
                                           detail |-> "none"]
                       ELSE IF e \in ValueErrors THEN HTTPException(400, e)
                       ELSE HTTPException(500, e)
    /\ UNCHANGED <<url, resolved_url, PLAYWRIGHT_AVAILABLE, pc, browser, launches, gets, tierError,
                   html, page_model, image_elements, waited, pending, outcome>>
    /\ UNCHANGED <<harnessVars, apiVars>>

Init == ScrapeInit /\ HarnessIdle /\ ApiIdle

Next ==
    \/ Start
    \/ Launch
    \/ Goto
    \/ WaitForSelector
    \/ Content
    \/ QueryDom
    \/ Finally
    \/ HttpxValidate
    \/ HttpGet
    \/ Respond

Spec == Init /\ [][Next]_vars

-----------------------------------------------------------------------------
(* Properties of scrape_rightmove_listing, checked under Spec *)

\* the host of the URL is the target domain or one of its subdomains
OnTargetHost(u) ==
    LET n == Netloc(u) IN
    \/ n = <<"rightmove.co.uk">>
    \/ Len(n) >= 3 /\ n[Len(n)] = "rightmove.co.uk" /\ n[Len(n) - 1] = "."

\* a call that ended by raising the error e
Raised(e) == pc = "done" /\ outcome.kind = "error" /\ outcome.error = e

\* a call that ended by returning a listing
Returned == pc = "done" /\ outcome.kind = "listing"

\* C1: a call whose URL is not on the target host, or has no numeric listing
\* identifier, launches no browser and issues no GET, and when it has ended
\* it has raised ValueError, with or without Playwright.
C1_InvalidUrlFailsBeforeIO ==
    (~OnTargetHost(url) \/ extract_property_id(url) = <<>>)
        => /\ launches = 0
           /\ gets = 0
           /\ pc = "done" => Raised("ValueError")

\* C2: a URL whose host is neither the target domain nor a subdomain of it
\* passes the validation of neither tier (the call never reaches the browser
\* launch nor the GET), and no listing is returned for it.
C2_OtherHostsRejected ==
    ~OnTargetHost(url) => pc \notin {"launch", "get"} /\ ~Returned

\* C3: when the Playwright tier failed (launch, navigation, any exception of
\* the session), the call ends in the httpx tier, and it returns a listing
\* unless the GET itself failed.
C3_BrowserFailureFallsThrough ==
    (pc = "done" /\ tierError \notin {"none", "ValueError"})
        => /\ gets = 1
           /\ outcome.tier = "httpx"
           /\ ~Raised("HTTPError") => Returned

\* C4: the browser is never open once control has left the Playwright tier
\* (in the httpx tier, at the GET, at the end of the call), a GET is never
\* issued while a browser is open, and a call launches at most one browser.
C4_BrowserClosedOnEveryExit ==
    /\ pc \in {"httpx", "get", "done"} => browser # "open"
    /\ gets > 0 => browser # "open"
    /\ launches <= 1
    /\ browser # "none" => launches = 1

\* C4, its case: a launched browser, a navigation timeout, the httpx tier
\* has fetched the page, and the browser is closed
C4_Witness ==
    /\ pc = "done"
    /\ browser = "closed"
    /\ tierError = "NavigationTimeout"
    /\ gets = 1

\* C5: a call raises only for an invalid URL or when the page could not be
\* fetched; whatever the shape of the embedded JSON, it returns a listing.
C5_ErrorsOnlyInvalidUrlOrNoPage ==
    (pc = "done" /\ outcome.kind = "error")
        => \/ ValidateUrl(url) # "ok" /\ outcome.error = "ValueError"
           \/ outcome.error = "HTTPError"

\* C6: in every returned listing the image ids are 1, 2, ..., n in the order
\* of the images list.
C6_IdsContiguous ==
    Returned => \A i \in 1..Len(outcome.listing.images) : outcome.listing.images[i].id = i

\* an image entry with a URL string and a caption string
CaptionedEntry(e) ==
    /\ isinstance_dict(e)
    /\ HasKey(e, "url") /\ isinstance_str(Get(e, "url", None)) /\ Truthy(Get(e, "url", None))
    /\ HasKey(e, "caption") /\ isinstance_str(Get(e, "caption", None))

\* a PAGE_MODEL of the shape of the scenario: propertyData with
\* address.displayAddress, prices.primaryPrice and a list of captioned images
ScenarioShaped(data) ==
    /\ isinstance_dict(data) /\ HasKey(data, "propertyData")
    /\ LET prop == Get(data, "propertyData", None) IN
       /\ isinstance_dict(prop)
       /\ HasKey(prop, "address") /\ isinstance_dict(Get(prop, "address", None))
       /\ isinstance_str(Get(Get(prop, "address", None), "displayAddress", None))
       /\ HasKey(prop, "prices") /\ isinstance_dict(Get(prop, "prices", None))
       /\ isinstance_str(Get(Get(prop, "prices", None), "primaryPrice", None))
       /\ ~HasKey(prop, "floorplans")
       /\ HasKey(prop, "images") /\ Get(prop, "images", None).t = "list"
       /\ \A i \in 1..Len(Get(prop, "images", None).xs) :
              CaptionedEntry(Get(prop, "images", None).xs[i])

\* C10: when the page parsed last holds a PAGE_MODEL of the scenario's shape,
\* the call returns a listing with its address and price, one image per
\* source entry in source order, the room type classified from the caption,
\* and no _max_WxH segment in url_high_res.
C10_ListingBuiltFromPageModel ==
    (pc = "done" /\ page_model.kind = "dict" /\ ScenarioShaped(page_model.v))
        => LET prop == Get(page_model.v, "propertyData", None)
               entries == Get(prop, "images", None).xs
               images == outcome.listing.images
           IN  /\ outcome.kind = "listing"
               /\ outcome.listing.address = Get(Get(prop, "address", None), "displayAddress", None)
               /\ outcome.listing.price = Get(Get(prop, "prices", None), "primaryPrice", None)
               /\ Len(images) = Len(entries)
               /\ \A i \in 1..Len(images) :
                    /\ images[i].room_type
                         = detect_room_type(Get(entries[i], "caption", None).s, i - 1, Len(entries))
                    /\ \A j \in 1..Len(images[i].url_high_res) :
                         images[i].url_high_res[j] \notin MaxSegments

\* C15: the url of a returned listing is the URL at which the fetch of the
\* input URL ended, the target of the redirect when there was one.
C15_UrlIsResolvedUrl ==
    Returned => outcome.listing.url = resolved_url

\* C16: the handler gives every outcome of the scraper exactly one response:
\* a returned listing is answered with status 200 and a body that carries the
\* listing's url, property_id and images; the ValueError of an invalid URL is
\* answered with 400; every other failure is answered with 500; and 400 is
\* the answer only when the URL is invalid.
C16_HandlerMapsOutcomes ==
    response # NoResponse =>
        /\ Returned => /\ response.status = 200
                       /\ response.body.url = outcome.listing.url
                       /\ response.body.property_id = outcome.listing.property_id
                       /\ Len(response.body.images) = Len(outcome.listing.images)
        /\ Raised("ValueError") => response.status = 400
        /\ (outcome.kind = "error" /\ outcome.error # "ValueError") => response.status = 500
        /\ response.status = 400 => ValidateUrl(url) # "ok"

\* C19: in one call the browser is launched at most once and client.get is
\* called at most once; the launch happens before any GET and before any tier
\* has failed; with Playwright available a GET is issued only after the
\* Playwright tier was tried, has failed and has left no browser open.
C19_EachTierOnceInSequence ==
    [][ /\ launches' <= 1
        /\ gets' <= 1
        /\ launches' # launches => (gets = 0 /\ tierError = "none")
        /\ gets' # gets => (PLAYWRIGHT_AVAILABLE
                              => launches = 1 /\ tierError # "none" /\ browser # "open") ]_vars

\* both tiers ran: the Playwright tier failed after its launch, then the GET
C19_Witness ==
    pc = "done" /\ launches = 1 /\ gets = 1 /\ tierError # "none" /\ browser = "closed"

\* the digits a text ends with
RECURSIVE TrailingDigits(_)
TrailingDigits(s) ==
    IF s # <<>> /\ s[Len(s)] \in Digits
    THEN Append(TrailingDigits(SubSeq(s, 1, Len(s) - 1)), s[Len(s)])
    ELSE <<>>

\* a path segment /properties/... or /property-... begins at position i
ListingSegmentAt(u, i) ==
    /\ i + 2 <= Len(u)
    /\ u[i] = "/"
    /\ \/ u[i + 1] = "properties" /\ u[i + 2] = "/"
       \/ u[i + 1] = "property" /\ u[i + 2] = "-"

\* the identifier a URL carries: the digits that end the path segment
\* /properties/<digits> or /property-<text>-<digits>, else the digits of the
\* query parameter propertyId=<digits>
UrlIdentifier(u) ==
    IF \E i \in 1..Len(u) : ListingSegmentAt(u, i)
    THEN LET i == CHOOSE k \in 1..Len(u) :
                    ListingSegmentAt(u, k) /\ \A j \in 1..(k - 1) : ~ListingSegmentAt(u, j)
         IN  TrailingDigits(UpToDelim(Drop(u, i + 2)))
    ELSE IF Occurs("propertyId=", u) THEN DigitRun(Drop(u, Find("propertyId=", u)))
    ELSE <<>>

\* C20: the property_id of every returned listing, from either tier, is a
\* non-empty string of digits and is the identifier the input URL carries.
C20_PropertyIdFromUrl ==
    Returned =>
        /\ outcome.listing.property_id # <<>>
        /\ \A i \in 1..Len(outcome.listing.property_id) : outcome.listing.property_id[i] \in Digits
        /\ outcome.listing.property_id = UrlIdentifier(url)

\* C21: once the Playwright tier holds the page text, the GET of the httpx
\* tier is not issued because of what the text or its PAGE_MODEL contains:
\* a GET follows a page text only when a call of the browser driver raised.
C21_NoGetAfterRenderedHtml ==
    [][gets' # gets => (html = <<>> \/ tierError = "PlaywrightError")]_vars

\* the Playwright tier returned the listing of its DOM fallback: the page had
\* no usable PAGE_MODEL (the else branch of line 549)
DomFallbackReturned ==
    /\ Returned
    /\ outcome.tier = "playwright"
    /\ ~(page_model.kind = "dict" /\ Truthy(page_model.v))

\* C25: the images of a DOM fallback listing have pairwise different
\* canonical URLs (url_high_res): elements whose sources differ only in the
\* query or only in a resolution-limiting segment give one image.
C25_DomImagesDistinctCanonical ==
    DomFallbackReturned
        => \A i, j \in 1..Len(outcome.listing.images) :
              i # j => outcome.listing.images[i].url_high_res # outcome.listing.images[j].url_high_res

\* tokens whose text contains 'branch_profile' in some letter case
ProfileTokens == {"BRANCH_PROFILE_IMG_3.jpeg", "branch_profile_IMG_4.jpeg"}

\* the URL of a known non-property asset: it contains one of the exclusion
\* patterns, in any letter case
IsExcludedAsset(u) ==
    \/ HasSkipPattern(u)
    \/ \E i \in 1..Len(u) : u[i] \in ProfileTokens

\* C26: no image of a DOM fallback listing is a known non-property asset
\* (branch logo, branch profile, map tile, /map/, /assets/, logo, icon,
\* placeholder, in any letter case) or a thumbnail.
C26_DomImagesNoAssetsNoThumbnails ==
    DomFallbackReturned
        => \A i \in 1..Len(outcome.listing.images) :
              /\ ~IsExcludedAsset(outcome.listing.images[i].url)
              /\ ~IsThumbnail(outcome.listing.images[i].url)

\* C27: after a timeout of wait_for_selector the Playwright tier goes on and,
\* unless a later call of the browser driver raises, the call ends with the
\* listing of that tier and without a GET; after a timeout of page.goto the
\* call ends in the httpx tier, with its GET issued.
C27_SelectorTimeoutNonFatal ==
    /\ (pc = "done" /\ waited = "timeout" /\ tierError # "PlaywrightError")
           => (Returned /\ outcome.tier = "playwright" /\ gets = 0)
    /\ (pc = "done" /\ tierError = "NavigationTimeout")
           => (gets = 1 /\ outcome.tier = "httpx")

\* C28: in every returned listing, an image whose room type is the
\* positional placeholder "Photo N" has the id N, in the PAGE_MODEL path and
\* in the DOM fallback, also when entries or elements before it were skipped.
C28_PhotoNumberIsId ==
    Returned
        => \A i \in 1..Len(outcome.listing.images) :
              outcome.listing.images[i].room_type.label = "Photo"
                  => outcome.listing.images[i].room_type.photo = outcome.listing.images[i].id

\* the src attributes of the img elements in the text of a page, in order
RECURSIVE ImgSrcs(_)
ImgSrcs(h) ==
    IF ~Occurs("<img src=", h) THEN <<>>
    ELSE LET rest == Drop(h, Find("<img src=", h))
             n == Find(">", rest)
         IN  <<SubSeq(rest, 1, n - 1)>> \o ImgSrcs(Drop(rest, n))

\* the image sources the fallback of the tier that returned has before it:
\* the elements query_selector_all gave, or the img elements of the text
SeenSrcs ==
    IF outcome.tier = "playwright"
    THEN [i \in 1..Len(image_elements) |-> image_elements[i].src]
    ELSE ImgSrcs(html)

IsLogo(u) == u # <<>> /\ u[Len(u)] = "branch_logo.png"
IsMediaPhoto(u) ==
    /\ StartsWith(u, MediaPrefix)
    /\ ~IsLogo(u) /\ ~HasSkipPattern(u) /\ ~IsThumbnail(u) /\ IsPropertyPhoto(u)

\* two distinct property photos on the media host and one logo, in any order
TwoPhotosAndLogo(srcs) ==
    /\ Len(srcs) = 3
    /\ Cardinality({i \in 1..3 : IsLogo(srcs[i])}) = 1
    /\ Cardinality({srcs[i] : i \in {j \in 1..3 : IsMediaPhoto(srcs[j])}}) = 2

\* C11: when the page has no marker and the fallback has two distinct media
\* host photos and one logo before it, the returned listing holds exactly the
\* two photos, in the order met, with the ids 1 and 2.
C11_FallbackTwoImagesNoLogo ==
    (Returned /\ Find(marker, html) = 0 /\ TwoPhotosAndLogo(SeenSrcs))
        => LET photos == SelectSeq(SeenSrcs, IsMediaPhoto)
               images == outcome.listing.images
           IN  /\ Len(images) = 2
               /\ \A i \in 1..2 : images[i].url = photos[i] /\ images[i].id = i

\* C12: a listing the httpx tier returns for a page without a usable
\* PAGE_MODEL holds every distinct media host photo of the page text that is
\* no thumbnail.
C12_LightweightScansHtml ==
    (Returned /\ outcome.tier = "httpx" /\ page_model.kind = "none")
        => \A i \in 1..Len(ImgSrcs(html)) :
              IsMediaPhoto(ImgSrcs(html)[i])
                  => \E j \in 1..Len(outcome.listing.images) :
                         outcome.listing.images[j].url = ImgSrcs(html)[i]

-----------------------------------------------------------------------------
(* upgrade_image_resolution applied once and twice *)

\* path segments: the names the two patterns are made of, and another one
CanonSegments == {"crop", "135x100", "_max_135x100", "a"}

\* "/seg1/seg2/..."
RECURSIVE JoinPath(_)
JoinPath(segs) == IF segs = <<>> THEN <<>> ELSE <<"/", Head(segs)>> \o JoinPath(Tail(segs))

CanonInputs ==
    {JoinPath(segs) \o tail : segs \in SeqsUpTo(CanonSegments, MaxSegs),
                              tail \in {<<>>, <<"/", "1.jpg">>}}

InitCanon ==
    /\ ScrapeIdle
    /\ ApiIdle
    /\ input \in CanonInputs
    /\ output = <<>>
    /\ step = "url"

\* url_high_res = upgrade_image_resolution(url)
CanonOnce ==
    /\ step = "url"
    /\ output' = [once |-> upgrade_image_resolution(input), twice |-> <<>>]
    /\ step' = "once"
    /\ UNCHANGED input
    /\ UNCHANGED <<scrapeVars, apiVars>>

\* upgrade_image_resolution applied to its own result
CanonTwice ==
    /\ step = "once"
    /\ output' = [output EXCEPT !.twice = upgrade_image_resolution(output.once)]
    /\ step' = "twice"
    /\ UNCHANGED input
    /\ UNCHANGED <<scrapeVars, apiVars>>

NextCanon == CanonOnce \/ CanonTwice

SpecCanon == InitCanon /\ [][NextCanon]_vars

\* C7: applying upgrade_image_resolution to its own result changes nothing,
\* for every URL, also with adjacent or nested crop and _max_ segments.
C7_CanonicalizerIdempotent ==
    step = "twice" => output.twice = output.once

\* C23: the result of upgrade_image_resolution holds no /crop/<W>x<H>/
\* segment and no /_max_<W>x<H>/ segment, whatever the number and the order
\* of such segments in the URL.
C23_NoLimitingSegmentLeft ==
    step = "once"
        => \A i \in 1..Len(output.once) : ~CropAt(output.once, i) /\ ~MaxAt(output.once, i)

-----------------------------------------------------------------------------
(* parse_page_model applied to page texts *)

TrickyChars == {"{", "}", "\"", "\\", "a"}

\* string values with braces, quotes and backslashes, and the caption of the
\* scenario
TrickyStrings == SeqsUpTo(TrickyChars, MaxStrLen) \cup {<<"Room ", "{", "A", "}">>}

\* objects that hold the string s as a value, as a key, nested and in a list
TrickyDocs(s) == {
    JObj(<<KV("caption", JStr(s))>>),
    JObj(<<[k |-> s, v |-> S("a")]>>),
    JObj(<<KV("images", JList(<<JObj(<<KV("caption", JStr(s))>>)>>)), KV("k", JStr(s))>>) }

\* text before the marker and after the object
Prefixes == {<<>>, <<"{", "\"">>}
Suffixes == {<<>>, <<";", "}">>, <<"}", "\"", "{">>}

ExtractorInput(family, v, raw, h) == [family |-> family, v |-> v, raw |-> raw, html |-> h]

\* a well-formed object after the marker, with text around it
WrappedInputs ==
    {ExtractorInput("wrapped", v, <<>>, pre \o <<marker>> \o Dump(v) \o suf) :
        v \in UNION {TrickyDocs(s) : s \in TrickyStrings}, pre \in Prefixes, suf \in Suffixes}

\* the same objects without the marker
NoMarkerInputs ==
    {ExtractorInput("nomarker", JNull, <<>>, Dump(v)) :
        v \in UNION {TrickyDocs(s) : s \in TrickyStrings}}

\* an object cut short: the text ends in the object or in one of its strings
CutInputs ==
    UNION {{ExtractorInput("cut", JNull, <<>>, <<marker>> \o SubSeq(Dump(JObj(<<KV("caption", JStr(s))>>)), 1, n)) :
                n \in 1..(Len(Dump(JObj(<<KV("caption", JStr(s))>>))) - 1)} :
           s \in TrickyStrings}

\* any short text after the marker
RawChars == {"{", "}", "\"", "\\", "a", ":"}
RawInputs ==
    {ExtractorInput("raw", JNull, raw, <<marker>> \o raw) : raw \in SeqsUpTo(RawChars, MaxRawLen)}

\* an object with an integer literal over the digit limit
HugeInputs ==
    {ExtractorInput("huge", JNull, <<>>, <<marker, "{", "\"", k, "\"", ":", HugeInt, "}">> \o suf) :
        k \in {"bedrooms", "a"}, suf \in Suffixes}

ExtractorInputs == WrappedInputs \cup NoMarkerInputs \cup CutInputs \cup RawInputs \cup HugeInputs

InitExtractor ==
    /\ ScrapeIdle
    /\ ApiIdle
    /\ input \in ExtractorInputs
    /\ output = <<>>
    /\ step = "html"

\* page_model = parse_page_model(html); json_str is the substring it bounds
Extract ==
    /\ step = "html"
    /\ output' = [page_model |-> parse_page_model(input.html), json_str |-> JsonStr(input.html)]
    /\ step' = "extracted"
    /\ UNCHANGED input
    /\ UNCHANGED <<scrapeVars, apiVars>>

NextExtractor == Extract

SpecExtractor == InitExtractor /\ [][NextExtractor]_vars

\* C8: for a well-formed object after the marker whose strings hold braces,
\* escaped quotes and backslashes, whatever text follows it, the substring
\* the scanner bounds is exactly the text of the object, and the result is
\* the object.
C8_ObjectBoundedCorrectly ==
    (step = "extracted" /\ input.family = "wrapped")
        => /\ output.json_str = Dump(input.v)
           /\ output.page_model = Parsed(input.v)

\* C8, its case: a caption that ends with a closing brace and an escaped
\* quote, followed by text with another closing brace
C8_Witness ==
    /\ step = "extracted"
    /\ input.family = "wrapped"
    /\ input.v = JObj(<<KV("caption", JStr(<<"}", "\"">>))>>)
    /\ input.html = <<marker>> \o Dump(input.v) \o <<"}", "\"", "{">>
    /\ output.page_model.kind = "dict"

\* the character at position k follows a backslash that is itself not escaped
RECURSIVE Escaped(_, _, _)
Escaped(h, start, k) ==
    k > start /\ h[k - 1] = "\\" /\ ~Escaped(h, start, k - 1)

\* position k lies inside a string: an odd number of quotes that are not
\* escaped precedes it
InsideString(h, start, k) ==
    Cardinality({q \in start..(k - 1) : h[q] = "\"" /\ ~Escaped(h, start, q)}) % 2 = 1

\* the braces that count: neither escaped nor inside a string
CountedBraces(h, start, k, brace) ==
    {q \in start..k : h[q] = brace /\ ~Escaped(h, start, q) /\ ~InsideString(h, start, q)}

\* the brace depth after position k of a scan that begins at start
Depth(h, start, k) ==
    Cardinality(CountedBraces(h, start, k, "{")) - Cardinality(CountedBraces(h, start, k, "}"))

\* the positions where the depth is zero after having been positive
ZeroAfterPositive(h, start) ==
    {p \in start..Len(h) : Depth(h, start, p) = 0 /\ \E q \in start..(p - 1) : Depth(h, start, q) > 0}

\* C22: the text handed to json.loads is the text from the end of the marker
\* to the first position where the brace depth is back at zero after having
\* been positive; when there is no such position (also when the depth was
\* zero only without having been positive) the scan bounds no object.
C22_ScanStopsAtFirstReturnToZero ==
    (step = "extracted" /\ Find(marker, input.html) # 0)
        => LET h == input.html
               start == Find(marker, h) + 1
               stops == ZeroAfterPositive(h, start)
           IN  IF stops = {} THEN output.json_str = <<>> /\ output.page_model.kind # "dict"
               ELSE LET p == CHOOSE x \in stops : \A y \in stops : x <= y
                    IN  output.json_str = SubSeq(h, start, p)

\* C22, its case: a closing brace first, so that the depth is zero at the
\* second character without having been positive, and zero again at the end
C22_Witness ==
    /\ step = "extracted"
    /\ input.raw = <<"}", "{", "{", "}">>
    /\ output.json_str = input.raw
    /\ output.page_model.kind = "none"

\* C9: parse_page_model returns a dict or None and never raises; it returns
\* None when the marker is absent, when the text ends before the brace depth
\* is back to zero, and when the bounded substring is no JSON.
C9_DictOrNoneNeverRaises ==
    step = "extracted"
        => /\ output.page_model.kind \in {"dict", "none"}
           /\ input.family \in {"nomarker", "cut"} => output.page_model.kind = "none"
           /\ (input.family = "raw" /\ ~StartsWith(input.raw, <<"{", "}">>))
                  => output.page_model.kind = "none"

-----------------------------------------------------------------------------
(* detect_room_type applied to captions, indices and totals *)

Captions == {
    <<>>, <<"a">>, <<"A", "a", "a">>, <<"WC">>, <<"font">>,
    <<"Kitchen">>, <<"Lovely bright kitchen">>, <<"kitchen.jpeg">>, <<"Lounge">>,
    <<"Bedroom 1">>, <<"Master bedroom with en-suite">>, <<"Entrance hall">>,
    <<"Photo of the garden">>, <<"_DSC4821.jpg">>, <<"IMG_0042">>, <<"DSC_0001.png">>,
    <<"Room ", "{", "A", "}">>, <<"Lounge", " ", "WC">>, <<"WC", " ", "a">> }

InitClassifier ==
    /\ ScrapeIdle
    /\ ApiIdle
    /\ input \in [caption : Captions, index : 0..MaxIndex, total_images : 0..MaxTotal]
    /\ output = <<>>
    /\ step = "caption"

\* room_type = detect_room_type(caption, idx, total_images)
Classify ==
    /\ step = "caption"
    /\ output' = detect_room_type(input.caption, input.index, input.total_images)
    /\ step' = "classified"
    /\ UNCHANGED input
    /\ UNCHANGED <<scrapeVars, apiVars>>

NextClassifier == Classify

SpecClassifier == InitClassifier /\ [][NextClassifier]_vars

\* the labels of the room table and of the positional defaults
RoomVocabulary ==
    {"Kitchen", "Living Room", "Bedroom", "Bathroom", "Garden", "Exterior", "Dining Room",
     "Study", "Hallway", "Utility", "Conservatory", "Garage", "Basement", "Attic",
     "Reception Room", "Kitchen / Dining", "Garden / Other"}

\* C13: the room type is a label of the room vocabulary or a placeholder
\* "Photo N" with N >= 1, never empty, for any caption, index and total.
C13_RoomTypePopulated ==
    step = "classified"
        => \/ output.label \in RoomVocabulary /\ output.photo = 0
           \/ output.label = "Photo" /\ output.photo >= 1

\* C13, its case: an empty caption at a late index of a short listing is
\* given a placeholder
C13_Witness ==
    /\ step = "classified"
    /\ input = [caption |-> <<>>, index |-> 11, total_images |-> 3]
    /\ output = [label |-> "Photo", photo |-> 12]

\* a caption that is not descriptive: a camera-filename prefix, an image file
\* extension, fewer than 4 characters, or the placeholder token
NonDescriptive(c) ==
    \/ c # <<>> /\ TokPrefix(c[1]) # "none"
    \/ c # <<>> /\ TokSuffix(c[Len(c)]) # "none"
    \/ CaptionLen(c) < 4
    \/ c = <<"font">>

\* the rooms of the table, in table order, one of whose keywords the caption holds
MatchingRooms(c) ==
    SelectSeq([i \in 1..Len(ROOM_KEYWORDS) |-> i],
              LAMBDA i : \E t \in 1..Len(c) : TokKeywords(c[t]) \cap ROOM_KEYWORDS[i].keywords # {})

\* C17: a descriptive caption that holds a keyword is given the label of the
\* first matching room of the table, whatever the index and the total; a
\* caption that is not descriptive is given what the empty caption is given
\* at the same index and total.
C17_KeywordsOnDescriptiveCaptions ==
    step = "classified"
        => /\ (~NonDescriptive(input.caption) /\ MatchingRooms(input.caption) # <<>>)
                => output = [label |-> ROOM_KEYWORDS[MatchingRooms(input.caption)[1]].room, photo |-> 0]
           /\ NonDescriptive(input.caption)
                => output = detect_room_type(<<>>, input.index, input.total_images)

\* C17, its case: the caption of the example
C17_Witness ==
    /\ step = "classified"
    /\ input = [caption |-> <<"Lovely bright kitchen">>, index |-> 5, total_images |-> 12]
    /\ output = [label |-> "Kitchen", photo |-> 0]

\* what index and total alone give
ExpectedPositional(index, total) ==
    CASE index = 0 -> [label |-> "Exterior", photo |-> 0]
      [] index # 0 /\ total < 10 -> [label |-> "Photo", photo |-> index + 1]
      [] index \in 1..2 /\ total >= 10 -> [label |-> "Reception Room", photo |-> 0]
      [] index \in 3..4 /\ total >= 10 -> [label |-> "Kitchen / Dining", photo |-> 0]
      [] index \in 5..7 /\ total >= 10 -> [label |-> "Bedroom", photo |-> 0]
      [] index \in 8..9 /\ total >= 10 -> [label |-> "Bathroom", photo |-> 0]
      [] index >= 10 /\ total >= 10 -> [label |-> "Garden / Other", photo |-> 0]

\* C18: when no keyword match applies (the caption is not descriptive or
\* holds no keyword), the result is "Exterior" at index 0, the positional
\* bucket for a total of 10 or more, "Photo {index+1}" otherwise.
C18_PositionalDefaults ==
    (step = "classified"
     /\ (NonDescriptive(input.caption) \/ MatchingRooms(input.caption) = <<>>))
        => output = ExpectedPositional(input.index, input.total_images)

\* C18, its case: a camera filename at index 8 of 12
C18_Witness ==
    /\ step = "classified"
    /\ input = [caption |-> <<"_DSC4821.jpg">>, index |-> 8, total_images |-> 12]
    /\ output = [label |-> "Bathroom", photo |-> 0]

-----------------------------------------------------------------------------
(* extract_property_id applied to the URL shapes that carry an identifier *)

\* the digit strings d
DigitStrings == SeqsUpTo(Digits, MaxDigits) \ {<<>>}

\* the text between "property-" and "-d"
SlugTexts == {<<"for", "-", "sale">>, <<"2", "-", "bed", "-", "flat">>}

Hosts == {Scheme \o Www, Scheme \o <<"rightmove.co.uk">>}

\* two digit strings that differ
DigitPairs == {pr \in DigitStrings \X DigitStrings : pr[1] # pr[2]}

IdInput(shape, d, u) == [shape |-> shape, d |-> d, url |-> u]

IdInputs ==
    {IdInput("properties", d, h \o <<"/", "properties", "/">> \o d) : d \in DigitStrings, h \in Hosts}
    \cup {IdInput("properties", d, h \o <<"/", "properties", "/">> \o d \o <<"#", "/", "?", "channel=">>) :
            d \in DigitStrings, h \in Hosts}
    \cup {IdInput("slug", d, h \o <<"/", "property", "-">> \o t \o <<"-">> \o d) :
            d \in DigitStrings, h \in Hosts, t \in SlugTexts}
    \cup {IdInput("query", d, h \o <<"/", "find", "?", "propertyId=">> \o d) :
            d \in DigitStrings, h \in Hosts}
    \* a path identifier d and a query parameter with other digits q
    \cup {IdInput("both", d, h \o <<"/", "properties", "/">> \o d \o <<"?", "propertyId=">> \o q) :
            <<d, q>> \in DigitPairs, h \in Hosts}
    \cup {IdInput("bothslug", d, h \o <<"/", "property", "-">> \o t \o <<"-">> \o d
                                   \o <<"?", "propertyId=">> \o q) :
            <<d, q>> \in DigitPairs, h \in Hosts, t \in SlugTexts}
    \* no identifier in the path and none in the query
    \cup {IdInput("neither", <<>>, h \o t) :
            h \in Hosts,
            t \in {<<>>, <<"/", "find">>, <<"/", "property">>, <<"/", "properties", "/">>,
                   <<"/", "find", "?", "propertyId=">>, <<"/", "find", "?", "channel=", "1">>}}

InitPropertyId ==
    /\ ScrapeIdle
    /\ ApiIdle
    /\ input \in IdInputs
    /\ output = <<>>
    /\ step = "url"

\* property_id = extract_property_id(url)
ExtractId ==
    /\ step = "url"
    /\ output' = extract_property_id(input.url)
    /\ step' = "id"
    /\ UNCHANGED input
    /\ UNCHANGED <<scrapeVars, apiVars>>

\* lines 472-474 (and 385-387): if not property_id: raise ValueError
CheckId ==
    /\ step = "id"
    /\ output' = [property_id |-> output,
                  raised |-> IF output = <<>> THEN "ValueError" ELSE "none"]
    /\ step' = "checked"
    /\ UNCHANGED input
    /\ UNCHANGED <<scrapeVars, apiVars>>

NextPropertyId == ExtractId \/ CheckId

SpecPropertyId == InitPropertyId /\ [][NextPropertyId]_vars

\* C14: the identifier extracted from a target-site URL is the digit string
\* d the URL carries, whether as /properties/d, as /property-<text>-d or as
\* the query parameter propertyId=d.
C14_SameIdFromEveryShape ==
    step = "id" => output = input.d

\* C24: the path pattern is tried before the query pattern: a URL with a path
\* identifier and a propertyId parameter of other digits gives the path
\* identifier; a URL with the parameter only gives the parameter's digits;
\* a URL with neither gives no identifier and the validation raises ValueError.
C24_PathBeforeQuery ==
    (step = "checked" /\ input.shape \in {"both", "bothslug", "query", "neither"})
        => /\ output.property_id = input.d
           /\ output.raised = (IF input.shape = "neither" THEN "ValueError" ELSE "none")

-----------------------------------------------------------------------------
(* The API of main.py: POST /property and POST /renovate *)

\* line 719: for _ in range(60)
MaxPolls == 60

\* session tokens: a text that is no JWT, JWTs without kid or iss in the
\* unverified header and payload, an expired one, one whose signature does
\* not match the key, a good one
Token(wellformed, kid, iss, signed, expired) ==
    [wellformed |-> wellformed, kid |-> kid, iss |-> iss, signed |-> signed, expired |-> expired]

Tokens ==
    [garbage |-> Token(FALSE, FALSE, FALSE, FALSE, FALSE),
     nokid |-> Token(TRUE, FALSE, TRUE, TRUE, FALSE),
     noiss |-> Token(TRUE, TRUE, FALSE, TRUE, FALSE),
     badsig |-> Token(TRUE, TRUE, TRUE, FALSE, FALSE),
     expired |-> Token(TRUE, TRUE, TRUE, TRUE, TRUE),
     valid |-> Token(TRUE, TRUE, TRUE, TRUE, FALSE)]

\* words w with w.lower() == "bearer"
BearerWords == {"Bearer", "bearer", "BEARER"}

\* the Authorization header: absent (None) or a text, whose tokens are words
\* and runs of white space
Header(kind, present, text) == [kind |-> kind, present |-> present, text |-> text]

Headers ==
    {Header("missing", FALSE, <<>>), Header("missing", TRUE, <<>>),
     Header("malformed", TRUE, <<" ">>),
     Header("malformed", TRUE, <<"Bearer">>),
     Header("malformed", TRUE, <<"valid">>),
     Header("malformed", TRUE, <<"Basic", " ", "valid">>),
     Header("malformed", TRUE, <<"Bearer", " ", "valid", " ", "valid">>)}
    \cup {Header("bearer", TRUE, <<w, " ", t>>) : w \in BearerWords, t \in DOMAIN Tokens}
    \cup {Header("bearer", TRUE, <<" ", "Bearer", " ", " ", "valid", " ">>)}

ImageUrls == {"", "data:image", "http"}

Requests ==
    {[endpoint |-> "/renovate", authorization |-> h, image_url |-> u] :
        h \in Headers, u \in ImageUrls}
    \cup {[endpoint |-> "/property", authorization |-> h, image_url |-> ""] : h \in Headers}

\* authorization.split()
Split(text) == SelectSeq(text, LAMBDA w : w # " ")

HTTPStatus(code) == apc' = "done" /\ api_response' = code

InitApi ==
    /\ ScrapeIdle
    /\ HarnessIdle
    /\ request \in Requests
    /\ CLERK_SECRET_KEY \in BOOLEAN
    /\ IMAGE_PROVIDER \in {"replicate", "gemini"}
    /\ provider_key \in BOOLEAN
    /\ apc = "request"
    /\ user = "none"
    /\ jwks_gets = 0
    /\ image_fetches = 0
    /\ provider_calls = 0
    /\ scrapes = 0
    /\ polls = 0
    /\ prediction = NoPrediction
    /\ api_response = 0

\* a route that calls the handler of /renovate without its dependency
RouteWithoutDependency ==
    /\ apc = "request"
    /\ apc' = IF request.endpoint = "/property" THEN "property" ELSE "handler"
    /\ UNCHANGED <<request, CLERK_SECRET_KEY, IMAGE_PROVIDER, provider_key, user, jwks_gets,
                   image_fetches, provider_calls, scrapes, polls, prediction, api_response>>
    /\ UNCHANGED <<scrapeVars, harnessVars>>

\* lines 956-959 and 1007-1011: the route of the request; the handler of
\* /renovate depends on verify_clerk_session, the handler of /property does not
Route ==
    /\ apc = "request"
    /\ apc' = IF request.endpoint = "/property" THEN "property" ELSE "auth"
    /\ UNCHANGED <<request, CLERK_SECRET_KEY, IMAGE_PROVIDER, provider_key, user, jwks_gets,
                   image_fetches, provider_calls, scrapes, polls, prediction, api_response>>
    /\ UNCHANGED <<scrapeVars, harnessVars>>

\* lines 956-966, get_property_images: the scraper runs, its listing or its
\* HTTPException is the answer
GetPropertyImages ==
    /\ apc = "property"
    /\ scrapes' = scrapes + 1
    /\ \E code \in {200, 400, 500} : HTTPStatus(code)
    /\ UNCHANGED <<request, CLERK_SECRET_KEY, IMAGE_PROVIDER, provider_key, user, jwks_gets,
                   image_fetches, provider_calls, polls, prediction>>
    /\ UNCHANGED <<scrapeVars, harnessVars>>

\* lines 137-158: the checks of the secret key and of the header
VerifyHeader ==
    /\ apc = "auth"
    /\ LET authorization == request.authorization
           parts == Split(authorization.text)
       IN  IF ~CLERK_SECRET_KEY THEN HTTPStatus(500)
           ELSE IF ~authorization.present \/ authorization.text = <<>> THEN HTTPStatus(401)
           ELSE IF Len(parts) # 2 \/ parts[1] \notin BearerWords THEN HTTPStatus(401)
           ELSE apc' = "token" /\ UNCHANGED api_response
    /\ UNCHANGED <<request, CLERK_SECRET_KEY, IMAGE_PROVIDER, provider_key, user, jwks_gets,
                   image_fetches, provider_calls, scrapes, polls, prediction>>
    /\ UNCHANGED <<scrapeVars, harnessVars>>

\* the token of the header, parts[1]
SessionToken == Tokens[Split(request.authorization.text)[2]]

\* lines 160-178: the header and the payload are decoded without
\* verification; the key id and the issuer are read from them
DecodeUnverified ==
    /\ apc = "token"
    /\ IF ~SessionToken.wellformed \/ ~SessionToken.kid \/ ~SessionToken.iss
       THEN HTTPStatus(401)
       ELSE apc' = "jwks" /\ UNCHANGED api_response
    /\ UNCHANGED <<request, CLERK_SECRET_KEY, IMAGE_PROVIDER, provider_key, user, jwks_gets,
                   image_fetches, provider_calls, scrapes, polls, prediction>>
    /\ UNCHANGED <<scrapeVars, harnessVars>>

\* lines 177-198: the key set is fetched from the issuer that the unverified
\* payload names; the GET raises, or
\* answers another status than 200, or the set lacks the key id, or has it
FetchJwks ==
    /\ apc = "jwks"
    /\ jwks_gets' = jwks_gets + 1
    /\ \/ HTTPStatus(401)
       \/ apc' = "verify" /\ UNCHANGED api_response
    /\ UNCHANGED <<request, CLERK_SECRET_KEY, IMAGE_PROVIDER, provider_key, user,
                   image_fetches, provider_calls, scrapes, polls, prediction>>
    /\ UNCHANGED <<scrapeVars, harnessVars>>

\* lines 200-239: jwt.decode with the key: the signature, then the expiry
VerifyToken ==
    /\ apc = "verify"
    /\ IF ~SessionToken.signed \/ SessionToken.expired
       THEN HTTPStatus(401) /\ UNCHANGED user
       ELSE apc' = "handler" /\ user' = "active" /\ UNCHANGED api_response
    /\ UNCHANGED <<request, CLERK_SECRET_KEY, IMAGE_PROVIDER, provider_key, jwks_gets,
                   image_fetches, provider_calls, scrapes, polls, prediction>>
    /\ UNCHANGED <<scrapeVars, harnessVars>>

\* lines 1022-1043, generate_renovation: the checks of the image URL and of
\* the key of the provider
ValidateRenovation ==
    /\ apc = "handler"
    /\ IF request.image_url = "" THEN HTTPStatus(400)
       ELSE IF ~provider_key THEN HTTPStatus(500)
       ELSE apc' = "fetch" /\ UNCHANGED api_response
    /\ UNCHANGED <<request, CLERK_SECRET_KEY, IMAGE_PROVIDER, provider_key, user, jwks_gets,
                   image_fetches, provider_calls, scrapes, polls, prediction>>
    /\ UNCHANGED <<scrapeVars, harnessVars>>

\* lines 549-652 called at line 872, fetch_image_as_base64: a data URI is
\* decoded (an error is 400), a URL is fetched (400 for a status other than
\* 200, no content, no image or a network error, 500 for another error)
FetchImage ==
    /\ apc = "fetch"
    /\ image_fetches' = image_fetches + 1
    /\ \/ /\ apc' = (IF IMAGE_PROVIDER = "replicate" THEN "replicate" ELSE "gemini")
          /\ UNCHANGED api_response
       \/ HTTPStatus(400)
       \/ request.image_url = "http" /\ HTTPStatus(500)
    /\ UNCHANGED <<request, CLERK_SECRET_KEY, IMAGE_PROVIDER, provider_key, user, jwks_gets,
                   provider_calls, scrapes, polls, prediction>>
    /\ UNCHANGED <<scrapeVars, harnessVars>>

\* lines 766-864 and 1049-1080, generate_with_gemini: one POST; image data
\* and the answer 200, or an HTTPException with status 500
GenerateWithGemini ==
    /\ apc = "gemini"
    /\ provider_calls' = provider_calls + 1
    /\ \E code \in {200, 500} : HTTPStatus(code)
    /\ UNCHANGED <<request, CLERK_SECRET_KEY, IMAGE_PROVIDER, provider_key, user, jwks_gets,
                   image_fetches, scrapes, polls, prediction>>
    /\ UNCHANGED <<scrapeVars, harnessVars>>

\* lines 654-713, generate_with_replicate: the POST that creates the
\* prediction; a status other than 201, a response without urls.get or a
\* network error is 500
CreatePrediction ==
    /\ apc = "replicate"
    /\ provider_calls' = provider_calls + 1
    /\ \/ apc' = "poll" /\ UNCHANGED api_response
       \/ HTTPStatus(500)
    /\ UNCHANGED <<request, CLERK_SECRET_KEY, IMAGE_PROVIDER, provider_key, user, jwks_gets,
                   image_fetches, scrapes, polls, prediction>>
    /\ UNCHANGED <<scrapeVars, harnessVars>>

\* the statuses a poll can report; "error" is a GET or a json() that raises
PollStatuses == {"starting", "processing", "canceled", "succeeded", "failed", "error"}

\* a loop that goes on polling after the status "failed"
PollIgnoringFailed ==
    /\ apc = "poll"
    /\ polls < MaxPolls
    /\ polls' = polls + 1
    /\ \E st \in PollStatuses, out \in BOOLEAN :
         /\ prediction' = [status |-> st, output |-> st = "succeeded" /\ out]
         /\ IF st = "succeeded" THEN (IF out THEN apc' = "download" /\ UNCHANGED api_response
                                      ELSE HTTPStatus(500))
            ELSE IF st = "error" THEN HTTPStatus(500)
            ELSE apc' = "poll" /\ UNCHANGED api_response
    /\ UNCHANGED <<request, CLERK_SECRET_KEY, IMAGE_PROVIDER, provider_key, user, jwks_gets,
                   image_fetches, provider_calls, scrapes>>
    /\ UNCHANGED <<scrapeVars, harnessVars>>

\* lines 719-746: one turn of the loop: sleep, GET of the status; succeeded
\* with an output goes on to the download, succeeded without one and failed
\* raise 500, as does an exception; any other status goes to the next turn
Poll ==
    /\ apc = "poll"
    /\ polls < MaxPolls
    /\ polls' = polls + 1
    /\ \E st \in PollStatuses, out \in BOOLEAN :
         /\ prediction' = [status |-> st, output |-> st = "succeeded" /\ out]
         /\ IF st = "succeeded" THEN (IF out THEN apc' = "download" /\ UNCHANGED api_response
                                      ELSE HTTPStatus(500))
            ELSE IF st \in {"failed", "error"} THEN HTTPStatus(500)
            ELSE apc' = "poll" /\ UNCHANGED api_response
    /\ UNCHANGED <<request, CLERK_SECRET_KEY, IMAGE_PROVIDER, provider_key, user, jwks_gets,
                   image_fetches, provider_calls, scrapes>>
    /\ UNCHANGED <<scrapeVars, harnessVars>>

\* lines 748-752: the loop ended without a return or a raise: timed out
PollTimeout ==
    /\ apc = "poll"
    /\ polls = MaxPolls
    /\ HTTPStatus(500)
    /\ UNCHANGED <<request, CLERK_SECRET_KEY, IMAGE_PROVIDER, provider_key, user, jwks_gets,
                   image_fetches, provider_calls, scrapes, polls, prediction>>
    /\ UNCHANGED <<scrapeVars, harnessVars>>

\* lines 733-738 and 1049-1080: the GET of the output: the image is returned
\* and answered with 200, or the download fails with 500
Download ==
    /\ apc = "download"
    /\ \E code \in {200, 500} : HTTPStatus(code)
    /\ UNCHANGED <<request, CLERK_SECRET_KEY, IMAGE_PROVIDER, provider_key, user, jwks_gets,
                   image_fetches, provider_calls, scrapes, polls, prediction>>
    /\ UNCHANGED <<scrapeVars, harnessVars>>

NextApi ==
    \/ Route
    \/ GetPropertyImages
    \/ VerifyHeader
    \/ DecodeUnverified
    \/ FetchJwks
    \/ VerifyToken
    \/ ValidateRenovation
    \/ FetchImage
    \/ GenerateWithGemini
    \/ CreatePrediction
    \/ Poll
    \/ PollTimeout
    \/ Download

\* every awaited call returns or raises within its timeout, and the event
\* loop resumes the coroutine
SpecApi == InitApi /\ [][NextApi]_vars /\ WF_vars(NextApi)

\* C29: with the secret key configured, POST /renovate calls
\* fetch_image_as_base64 and the provider only after verify_clerk_session has
\* returned a user; a request whose Authorization header is missing or is
\* not "Bearer <token>" is answered 401 with no image fetch and no provider
\* call; POST /property runs the scraper without any verification.
C29_RenovateVerifiesBeforeFetch ==
    /\ (request.endpoint = "/renovate" /\ CLERK_SECRET_KEY)
           => /\ (image_fetches > 0 \/ provider_calls > 0) => user = "active"
              /\ (apc = "done" /\ request.authorization.kind \in {"missing", "malformed"})
                     => (api_response = 401 /\ image_fetches = 0 /\ provider_calls = 0)
    /\ (request.endpoint = "/property" /\ apc = "done")
           => (scrapes = 1 /\ user = "none" /\ jwks_gets = 0)

\* C29, its case: a header with another scheme than Bearer, answered 401
C29_Witness ==
    /\ request.endpoint = "/renovate"
    /\ CLERK_SECRET_KEY
    /\ request.authorization.text = <<"Basic", " ", "valid">>
    /\ request.image_url = "http"
    /\ apc = "done"
    /\ api_response = 401
    /\ image_fetches = 0

\* C30: the status is polled at most 60 times; no poll follows a poll that
\* reported succeeded or failed; the polling always ends; and it ends with
\* the image (200) only after succeeded with an output, with an error (500)
\* after failed, after succeeded without output and after the 60th poll
\* that reported neither.
C30_PollingTerminates ==
    /\ [](polls <= MaxPolls)
    /\ [][polls' # polls => prediction.status \notin {"succeeded", "failed"}]_vars
    /\ []((apc = "done" /\ polls > 0)
            => /\ api_response \in {200, 500}
               /\ api_response = 200 => (prediction.status = "succeeded" /\ prediction.output)
               /\ (prediction.status = "succeeded" /\ prediction.output) \/ api_response = 500)
    /\ (apc = "poll" ~> apc = "done")

\* C30, its case: the 60th poll reported a prediction still in progress
C30_Witness ==
    /\ apc = "done"
    /\ polls = MaxPolls
    /\ prediction.status = "processing"
    /\ api_response = 500

====
